---- MODULE Spec2Model ----
(***************************************************************************)
(* Model of the governance-document analysis pipeline:                     *)
(*   - TextChunker (services/document_processor.py)                        *)
(*   - GovernanceDocumentProcessor.process_document                        *)
(*   - GovernanceAnalysisViewSet.analyze_documents (views.py)              *)
(*   - BestPracticeExtractor.process_chunk                                 *)
(***************************************************************************)
EXTENDS Integers, Sequences, FiniteSets, TLC

NONE == "None"

Min(a, b) == IF a < b THEN a ELSE b

(***************************************************************************)
(* Bounds of the exploration.                                              *)
(***************************************************************************)
MaxTextLen == 9
MaxChunkSize == 3
MaxOverlap == 2

(***************************************************************************)
(* Text: a sequence of characters.  str.split() with no argument cuts the  *)
(* text at runs of whitespace and drops the empty pieces.                  *)
(***************************************************************************)
Whitespace == {" ", "\n", "\f"}
Alphabet == {"a", " "}

IsWordStart(text, i) ==
    text[i] \notin Whitespace /\ (i = 1 \/ text[i - 1] \in Whitespace)

WordEnd(text, i) ==
    CHOOSE j \in i..Len(text) :
        /\ \A k \in i..j : text[k] \notin Whitespace
        /\ (j = Len(text) \/ text[j + 1] \in Whitespace)

RECURSIVE WordsIn(_, _, _)
WordsIn(text, lo, hi) ==
    IF lo > hi THEN <<>>
    ELSE IF lo = hi
         THEN (IF IsWordStart(text, lo)
               THEN <<SubSeq(text, lo, WordEnd(text, lo))>>
               ELSE <<>>)
         ELSE LET mid == (lo + hi) \div 2
              IN WordsIn(text, lo, mid) \o WordsIn(text, mid + 1, hi)

\* text.split()
split(text) == WordsIn(text, 1, Len(text))

RECURSIVE JoinRange(_, _, _)
JoinRange(words, lo, hi) ==
    IF lo > hi THEN <<>>
    ELSE IF lo = hi THEN words[lo]
    ELSE LET mid == (lo + hi) \div 2
         IN JoinRange(words, lo, mid) \o <<" ">> \o JoinRange(words, mid + 1, hi)

\* ' '.join(words)
join(words) == JoinRange(words, 1, Len(words))

\* content.strip() is truthy
NotBlank(text) == \E i \in 1..Len(text) : text[i] \notin Whitespace

RECURSIVE TextsOfLen(_)
TextsOfLen(n) ==
    IF n = 0 THEN {<<>>}
    ELSE {Append(t, c) : t \in TextsOfLen(n - 1), c \in Alphabet}

Texts == UNION {TextsOfLen(n) : n \in 0..MaxTextLen}

\* The 2500-word text of the chunking scenario.
\* texts of the repeated calls on one instance
MaxRepeatTextLen == 5
RepeatTexts == UNION {TextsOfLen(n) : n \in 0..MaxRepeatTextLen}

LongTextWords == 2500
LongText == [i \in 1..(2 * LongTextWords - 1) |-> IF i % 2 = 1 THEN "a" ELSE " "]

(***************************************************************************)
(* TextChunker                                                             *)
(***************************************************************************)
DefaultChunkSize == 1000
DefaultOverlap == 200

TextChunker_Uncapped(chunk_size, overlap) ==
    [chunk_size |-> chunk_size, overlap |-> overlap]

\* TextChunker.__init__
TextChunker(chunk_size, overlap) ==
    [chunk_size |-> chunk_size, overlap |-> Min(overlap, chunk_size \div 2)]

\* end_position = min(current_position + self.chunk_size, len(words))
EndPosition(self, words, current_position) ==
    Min(current_position + self.chunk_size, Len(words))

\* the chunk_data dictionary of one iteration
ChunkData(self, words, current_position) ==
    LET end_position == EndPosition(self, words, current_position)
    IN [text      |-> join(SubSeq(words, current_position + 1, end_position)),
        size      |-> end_position - current_position,
        start_pos |-> current_position,
        end_pos   |-> end_position]

ShouldBreak_EndNearTail(self, words, current_position) ==
    current_position + self.overlap >= Len(words) - self.overlap

\* if current_position >= len(words) - self.overlap: break
ShouldBreak(self, words, current_position) ==
    current_position >= Len(words) - self.overlap

ForwardProgress_NotForced(current_position, start_pos) ==
    current_position

\* if current_position <= chunks[-1]['start_pos']: current_position = start_pos + 1
ForwardProgress(current_position, start_pos) ==
    IF current_position <= start_pos THEN start_pos + 1 ELSE current_position

\* One iteration of the while loop of split_text, from a cursor inside the text.
LoopBody(self, words, current_position, chunks) ==
    LET chunk_data == ChunkData(self, words, current_position)
        chunks2    == Append(chunks, chunk_data)
        position2  == chunk_data.end_pos - self.overlap
    IN IF ShouldBreak(self, words, position2)
       THEN [current_position |-> position2, chunks |-> chunks2, brk |-> TRUE]
       ELSE [current_position |-> ForwardProgress(position2, chunk_data.start_pos),
             chunks |-> chunks2, brk |-> FALSE]

RECURSIVE SplitLoop(_, _, _, _)
SplitLoop(self, words, current_position, chunks) ==
    IF current_position < Len(words)
    THEN LET r == LoopBody(self, words, current_position, chunks)
         IN IF r.brk THEN r.chunks
            ELSE SplitLoop(self, words, r.current_position, r.chunks)
    ELSE chunks

\* TextChunker.split_text as a function of the text
split_text(self, text) == SplitLoop(self, split(text), 0, <<>>)

(***************************************************************************)
(* State of one TextChunker and of the split_text call in progress.        *)
(***************************************************************************)
VARIABLES
    chunker,            \* the TextChunker instance (chunk_size, overlap)
    tc_pc,              \* "ready" | "loop" | "done"
    tc_text,            \* argument of the call in progress
    tc_words,           \* words = text.split()
    current_position,   \* cursor of the while loop
    tc_chunks,          \* chunks built so far
    tc_first            \* text and result of the first call that returned

chunkerVars ==
    <<chunker, tc_pc, tc_text, tc_words, current_position, tc_chunks, tc_first>>

\* no call of split_text has returned yet
NoCall == [returned |-> FALSE, text |-> <<>>, chunks |-> <<>>]

(***************************************************************************)
(* The analysis request: views.py analyze_documents, driving               *)
(* GovernanceDocumentProcessor.process_document and                        *)
(* BestPracticeExtractor.process_chunk.                                    *)
(***************************************************************************)
MaxPages == 4
MaxPractices == 1

MIME_PDF  == "application/pdf"
MIME_DOCX == "application/vnd.openxmlformats-officedocument.wordprocessingml.document"
MIME_ODT  == "application/vnd.oasis.opendocument.text"
MIME_XLS  == "application/vnd.ms-excel"
MIME_OCTET == "application/octet-stream"

\* the branches of _process_document_pages
SupportedMimeTypes == {MIME_PDF, MIME_DOCX, MIME_ODT}

HttpUrl  == "https://gateway.example/ipfs/Qm1"
LocalUrl == "reports/annual"

\* document.url.startswith('http')
StartsWithHttp(url) == url = HttpUrl

\* Path(filename).suffix
Suffix(filename) ==
    CASE filename = "report.pdf"  -> ".pdf"
      [] filename = "report.docx" -> ".docx"
      [] filename = "report.odt"  -> ".odt"
      [] filename = "sheet.xls"   -> ".xls"
      [] OTHER                    -> ""

\* _get_mime_type: mimetypes.guess_type(filename)[0] or 'application/octet-stream'
_get_mime_type(filename) ==
    CASE Suffix(filename) = ".pdf"  -> MIME_PDF
      [] Suffix(filename) = ".docx" -> MIME_DOCX
      [] Suffix(filename) = ".odt"  -> MIME_ODT
      [] Suffix(filename) = ".xls"  -> MIME_XLS
      [] OTHER                      -> MIME_OCTET

\* the path _download_file writes to: data_dir / f"downloaded{extension}"
DownloadPath(filename) ==
    IF Suffix(filename) = "" THEN "downloaded.pdf" ELSE "downloaded" \o Suffix(filename)

FileNames == {NONE, "report.pdf", "report.docx", "report.odt", "sheet.xls", "report"}
FileUrls  == {NONE, "", HttpUrl, LocalUrl}
FileIds   == {NONE, "Qm1"}
FileTypes == {NONE, MIME_PDF, MIME_DOCX, MIME_ODT, MIME_XLS}

Requests ==
    [file_name : FileNames, file_url : FileUrls, file_id : FileIds, file_type : FileTypes]

\* truth value of a request field: None and '' are falsy
Truthy(v) == v # NONE /\ v # ""

\* not all([file_url, file_id, file_type])
MissingRequiredFields(req) ==
    ~(Truthy(req.file_url) /\ Truthy(req.file_id) /\ Truthy(req.file_type))

\* page contents an extractor can return (never blank)
PageTexts == {<<"a">>, <<"a", " ", "b">>}

RECURSIVE PageLists(_)
PageLists(n) ==
    IF n = 0 THEN {<<>>}
    ELSE LET shorter == PageLists(n - 1)
         IN shorter \cup {Append(ps, <<t, Len(ps) + 1>>) :
                              ps \in {q \in shorter : Len(q) = n - 1}, t \in PageTexts}

\* process_document: the pages grouped in batches of batch_size
BatchSize == 3

RECURSIVE GroupBatches(_)
GroupBatches(pages) ==
    IF Len(pages) = 0 THEN <<>>
    ELSE IF Len(pages) <= BatchSize THEN <<pages>>
    ELSE <<SubSeq(pages, 1, BatchSize)>> \o GroupBatches(SubSeq(pages, BatchSize + 1, Len(pages)))

\* if content.strip(): pages without text are left out
HasContent(page) == NotBlank(page[1])

MakeBatches(pages) == GroupBatches(SelectSeq(pages, HasContent))

\* a page of more words than one chunk holds
LongPage == [i \in 1..(2 * (DefaultChunkSize + 1) - 1) |-> IF i % 2 = 1 THEN "a" ELSE " "]

\* documents of up to MaxBatchPages pages, of which at most one is without
\* text and the second may be long
MaxBatchPages == 7
LongAt == {0, 2}

PageList(n, blank, long) ==
    [i \in 1..n |-> <<IF i = blank THEN <<" ">>
                      ELSE IF i = long THEN LongPage ELSE <<"a">>, i>>]

WidePageLists ==
    {PageList(n, blank, long) : n \in 0..MaxBatchPages, blank \in 0..MaxBatchPages,
                                long \in LongAt}

\* as _process_text_chunks, position counting the chunks of the document
_process_text_chunks_DocumentPosition(text, document_id, page_number, first_id) ==
    LET text_chunks == split_text(TextChunker(DefaultChunkSize, DefaultOverlap), text)
    IN [pos \in 1..Len(text_chunks) |->
           [id         |-> first_id + pos - 1,
            document   |-> document_id,
            text       |-> text_chunks[pos].text,
            page_number |-> page_number,
            position   |-> first_id + pos - 2,
            chunk_size |-> text_chunks[pos].size,
            word_count |-> Len(split(text_chunks[pos].text))]]

\* _process_text_chunks: the DocumentChunk rows of one page
_process_text_chunks(text, document_id, page_number, first_id) ==
    LET text_chunks == split_text(TextChunker(DefaultChunkSize, DefaultOverlap), text)
    IN [pos \in 1..Len(text_chunks) |->
           [id         |-> first_id + pos - 1,
            document   |-> document_id,
            text       |-> text_chunks[pos].text,
            page_number |-> page_number,
            position   |-> pos - 1,
            chunk_size |-> text_chunks[pos].size,
            word_count |-> Len(split(text_chunks[pos].text))]]

\* the rows created for the results of one batch, page after page; first_id
\* is the id that DocumentChunk.objects.create gives next
RECURSIVE BatchChunks(_, _, _)
BatchChunks(batch, document_id, first_id) ==
    IF Len(batch) = 0 THEN <<>>
    ELSE LET page_chunks ==
                 _process_text_chunks(batch[1][1], document_id, batch[1][2], first_id)
         IN page_chunks \o BatchChunks(Tail(batch), document_id, first_id + Len(page_chunks))

\* ThreadPoolExecutor(max_workers=3)
PoolWidth == 3

\* executor.submit for n batches: the first max_workers run, the others wait
Submitted(n) == [i \in 1..n |-> IF i <= PoolWidth THEN "running" ELSE "queued"]

\* the freed worker takes the first batch of the queue
NextStarted(states) ==
    IF \E i \in 1..Len(states) : states[i] = "queued"
    THEN LET first == CHOOSE i \in 1..Len(states) :
                          /\ states[i] = "queued"
                          /\ \A j \in 1..(i - 1) : states[j] # "queued"
         IN [states EXCEPT ![first] = "running"]
    ELSE states

SeqToSet(sq) == {sq[i] : i \in 1..Len(sq)}

\* responses of the extraction function to one chunk
ExtractionResponses ==
    {[kind |-> k, criteria_met |-> FALSE, practices |-> 0] :
        k \in {"api_error", "malformed", "missing_key"}}
    \cup {[kind |-> "json", criteria_met |-> c, practices |-> n] :
             c \in BOOLEAN, n \in 0..MaxPractices}

\* positional arguments of the call analyzer.analyze_practice(practice)
AnalyzeCallArgs == 1
\* required parameters of ThemeAnalyzer.analyze_practice besides self
AnalyzeParams == 4

EmptyDb == [documents |-> {}, chunks |-> {}, practices |-> {}]

\* no request received, no GovernanceDocument constructed, no answer given yet
NoRequest == [file_name |-> NONE, file_url |-> NONE, file_id |-> NONE, file_type |-> NONE]
NoDocument ==
    [id |-> 0, pinata_id |-> NONE, url |-> NONE, filename |-> NONE, mime_type |-> NONE,
     file_size |-> 0, total_pages |-> 0, processed_status |-> NONE,
     processing_duration |-> NONE, error_message |-> NONE]
NoResponse == [status |-> 0, message |-> NONE]

VARIABLES
    pc,               \* position of the request handler ("idle" before, "done" after)
    request,          \* request.data of the request in progress
    response,         \* what the handler answered (NONE while in progress)
    document,         \* the in-memory GovernanceDocument of the request
    db,               \* stored rows: documents, chunks, practices
    tx_snapshot,      \* rows at entry of transaction.atomic()
    disk,             \* files present in data_dir
    downloaded_file,  \* local of process_document
    page_batches,     \* local of process_document
    futures_done,     \* number of batch futures whose result was taken
    chunks,           \* chunk list of process_document / the view
    chunk_idx,        \* index of the next chunk of the extraction loop
    practices,        \* findings returned by process_chunk, to be analysed
    extractor_cache,  \* BestPracticeExtractor._cache: chunk text -> finding
    next_practice_id, \* next BestPractice id
    status_writes,    \* values written to processed_status, in order
    failed_stage,     \* stage in which an exception was raised (NONE: none)
    env_fault         \* a collaborator (download, parser, model) failed

pipelineVars ==
    <<pc, request, response, document, db, tx_snapshot, disk,
      downloaded_file, page_batches, futures_done, chunks, chunk_idx, practices,
      extractor_cache, next_practice_id, status_writes,
      failed_stage, env_fault>>

(***************************************************************************)
(* One BestPracticeExtractor called directly: process_chunk.               *)
(***************************************************************************)
\* n words separated by single spaces
WordsText(n) == [i \in 1..(2 * n - 1) |-> IF i % 2 = 1 THEN "a" ELSE " "]

\* a key the model's answer does not hold
MISSING == "<absent>"

\* the evidence value of a practice: absent, null, or a string
AbsentEvidence == [given |-> "absent", text |-> <<>>]
NullEvidence   == [given |-> "null", text |-> <<>>]
Evidence(text) == [given |-> "str", text |-> text]

\* practice_data.get(f, default) for the string-valued keys
Get(practice_data, f, default) ==
    IF practice_data[f] = MISSING THEN default ELSE practice_data[f]

\* practice_data.get('evidence', '')
GetEvidence(practice_data) ==
    IF practice_data.evidence.given = "absent" THEN Evidence(<<>>)
    ELSE practice_data.evidence

\* truth value of practice_data.get(f)
Given(practice_data, f) ==
    IF f = "evidence"
    THEN practice_data.evidence.given = "str" /\ Len(practice_data.evidence.text) > 0
    ELSE practice_data[f] \notin {MISSING, NONE, ""}

\* str.lower() on the category values of the model
Lower(category) ==
    CASE category = "Transparent Governance"           -> "transparent governance"
      [] category = "Sound RISK MANAGEMENT & COMPLIANCE" -> "sound risk management & compliance"
      [] category = "Governance"                       -> "governance"
      [] OTHER                                         -> category

\* some cat.lower() of self.categories is a substring of the lowered category
ContainsCategory(lowered) ==
    lowered \in {"transparent governance", "sound risk management & compliance"}

\* scores are exact fractions of ScoreOne; each factor has one decimal and
\* four factors are applied, so ScoreOne is 10^4
ScoreOne == 10000
Max(a, b) == IF a >= b THEN a ELSE b

\* score *= tenths / 10
Times(score, tenths) == (score * tenths) \div 10

\* as Clamp, the score being returned as computed
Clamp_Unclamped(score) == score

\* max(0.0, min(1.0, score))
Clamp(score) == Max(0, Min(ScoreOne, score))

RequiredFields == {"practice", "category", "context", "impact", "evidence"}

\* as _calculate_confidence_score, every missing field costing 0.7
_calculate_confidence_score_PerMissingField(practice_data, word_count) ==
    LET s1 == IF word_count < 50 THEN Times(ScoreOne, 8)
              ELSE IF word_count > 500 THEN Times(ScoreOne, 9) ELSE ScoreOne
        evidence == GetEvidence(practice_data)
        s2 == IF evidence.given = "str" /\ Len(evidence.text) > 0
                 /\ Len(split(evidence.text)) > 10
              THEN Times(s1, 11) ELSE s1
        category == Get(practice_data, "category", "")
        s3 == IF ContainsCategory(Lower(category)) THEN Times(s2, 11) ELSE s2
        p1 == IF Given(practice_data, "practice") THEN s3 ELSE Times(s3, 7)
        p2 == IF Given(practice_data, "category") THEN p1 ELSE Times(p1, 7)
        p3 == IF Given(practice_data, "context") THEN p2 ELSE Times(p2, 7)
        p4 == IF Given(practice_data, "impact") THEN p3 ELSE Times(p3, 7)
        s4 == IF Given(practice_data, "evidence") THEN p4 ELSE Times(p4, 7)
    IN IF category = NONE THEN [raised |-> TRUE, score |-> 0]
       ELSE [raised |-> FALSE, score |-> Clamp(s4)]

\* _calculate_confidence_score; category.lower() on null raises AttributeError
_calculate_confidence_score(practice_data, word_count) ==
    LET s1 == IF word_count < 50 THEN Times(ScoreOne, 8)
              ELSE IF word_count > 500 THEN Times(ScoreOne, 9) ELSE ScoreOne
        evidence == GetEvidence(practice_data)
        s2 == IF evidence.given = "str" /\ Len(evidence.text) > 0
                 /\ Len(split(evidence.text)) > 10
              THEN Times(s1, 11) ELSE s1
        category == Get(practice_data, "category", "")
        s3 == IF ContainsCategory(Lower(category)) THEN Times(s2, 11) ELSE s2
        s4 == IF \E f \in RequiredFields : ~Given(practice_data, f)
              THEN Times(s3, 7) ELSE s3
    IN IF category = NONE THEN [raised |-> TRUE, score |-> 0]
       ELSE [raised |-> FALSE, score |-> Clamp(s4)]

\* a Python dict: its entries in the order in which their keys were inserted
DictHas(d, key) == \E i \in 1..Len(d) : d[i].key = key
DictGet(d, key) == d[CHOOSE i \in 1..Len(d) : d[i].key = key].value

\* d[key] = value: a key already present keeps its place
DictSet(d, key, value) ==
    IF DictHas(d, key)
    THEN [i \in 1..Len(d) |-> IF d[i].key = key THEN [key |-> key, value |-> value]
                               ELSE d[i]]
    ELSE Append(d, [key |-> key, value |-> value])

\* the keys of a dict, in its order
Keys(d) == [i \in 1..Len(d) |-> d[i].key]

\* hash(text): equal for equal texts
Hash(text) == [hash_of |-> text]

\* BestPracticeExtractor._get_cache_key
_get_cache_key(text) == Hash(text)

\* the BestPractice row created for one practice_data of a chunk
PracticeRow(id, chunk, practice_data, confidence_score) ==
    [id               |-> id,
     document         |-> chunk.document,
     text             |-> Get(practice_data, "practice", ""),
     context          |-> Get(practice_data, "context", ""),
     impact           |-> Get(practice_data, "impact", ""),
     page_number      |-> chunk.page_number,
     confidence_score |-> confidence_score,
     keywords         |-> split(GetEvidence(practice_data).text),
     themes           |-> <<Get(practice_data, "category", "")>>,
     is_best_practice |-> practice_data.is_best_practice]

\* the for loop of process_chunk over analysis_data.get('practices', []):
\* rows are created one by one until the list ends or a call raises
RECURSIVE CreatePractices(_, _, _, _)
CreatePractices(rows, chunk, practice_list, created) ==
    IF Len(practice_list) = 0
    THEN [rows |-> rows, created |-> created, raised |-> FALSE]
    ELSE LET practice_data == practice_list[1]
             cs == _calculate_confidence_score(practice_data, chunk.word_count)
         IN IF cs.raised \/ GetEvidence(practice_data).given = "null"
            THEN [rows |-> rows, created |-> created, raised |-> TRUE]
            ELSE LET row == PracticeRow(Len(rows) + 1, chunk, practice_data, cs.score)
                 IN CreatePractices(Append(rows, row), chunk, Tail(practice_list),
                                    Append(created, row))

\* max(practices, key=lambda p: p.confidence_score): the first of the maxima
MostConfident(created) ==
    created[CHOOSE i \in 1..Len(created) :
                /\ \A j \in 1..Len(created) :
                       created[j].confidence_score <= created[i].confidence_score
                /\ \A j \in 1..(i - 1) :
                       created[j].confidence_score < created[i].confidence_score]

\* what process_chunk gives its caller: None, a list of findings, one
\* finding, or an exception
Returned(kind, items) == [kind |-> kind, items |-> items]
NoResult == Returned("None", <<>>)

\* as CriteriaNotMet, the practices of the answer being looked at first
CriteriaNotMet_WhenEmpty(analysis) ==
    ~analysis.criteria_met /\ Len(analysis.practices) = 0

\* if analysis_data['criteria_met'] == False
CriteriaNotMet(analysis) == ~analysis.criteria_met

\* process_chunk on an extractor with the given cache and table of findings
process_chunk(cache, rows, chunk, analysis) ==
    LET cache_key == _get_cache_key(chunk.text)
    IN IF DictHas(cache, cache_key)
       THEN [cache |-> cache, rows |-> rows, hit |-> TRUE,
             result |-> Returned("finding", <<DictGet(cache, cache_key)>>)]
       ELSE IF analysis.kind # "json"
       THEN \* the API call, json.loads or analysis_data['criteria_met'] raises
            [cache |-> cache, rows |-> rows, hit |-> FALSE,
             result |-> Returned("raised", <<>>)]
       ELSE IF CriteriaNotMet(analysis)
       THEN [cache |-> cache, rows |-> rows, hit |-> FALSE, result |-> NoResult]
       ELSE LET r == CreatePractices(rows, chunk, analysis.practices, <<>>)
            IN IF r.raised
               THEN [cache |-> cache, rows |-> r.rows, hit |-> FALSE,
                     result |-> Returned("raised", <<>>)]
               ELSE IF Len(r.created) = 0
               THEN [cache |-> cache, rows |-> rows, hit |-> FALSE, result |-> NoResult]
               ELSE [cache |-> DictSet(cache, cache_key, MostConfident(r.created)),
                     rows |-> r.rows, hit |-> FALSE,
                     result |-> Returned("list", r.created)]

VARIABLES
    ex_cache,     \* BestPracticeExtractor._cache, entries in insertion order
    ex_rows,      \* BestPractice rows created by process_chunk
    ex_result,    \* what the last call of process_chunk returned
    ex_last,      \* the last call: its chunk, and whether the cache served it
    ex_computed,  \* what the call that filled the cache returned, per chunk text
    ex_calls      \* number of calls made

extractorVars == <<ex_cache, ex_rows, ex_result, ex_last, ex_computed, ex_calls>>

\* a DocumentChunk row handed to process_chunk
Chunk(document_id, page_number, text) ==
    [document    |-> document_id,
     text        |-> text,
     page_number |-> page_number,
     position    |-> 0,
     chunk_size  |-> Len(text),
     word_count  |-> Len(split(text))]

\* the answers of the model to one chunk
Analysis(criteria_met, practice_list) ==
    [kind |-> "json", criteria_met |-> criteria_met, practices |-> practice_list]

\* the model was not asked
NoAnswer == [kind |-> "none", criteria_met |-> FALSE, practices |-> <<>>]

FailedAnalyses ==
    {[kind |-> k, criteria_met |-> FALSE, practices |-> <<>>] :
        k \in {"api_error", "malformed", "missing_key"}}

\* every shape of one practice: each key absent, empty or given, the category
\* also null or outside the lists, the evidence also null, short or long
WidePracticeData ==
    [practice : {MISSING, "", "Publish the minutes"},
     category : {MISSING, NONE, "", "Governance", "Transparent Governance",
                 "Sound RISK MANAGEMENT & COMPLIANCE"},
     context  : {MISSING, "", "Board meetings"},
     impact   : {MISSING, "", "Trust"},
     evidence : {AbsentEvidence, NullEvidence, Evidence(<<>>), Evidence(WordsText(1)),
                 Evidence(WordsText(10)), Evidence(WordsText(11))},
     is_best_practice : {TRUE}]

\* chunk.word_count on both sides of the two thresholds
WordCounts == {1, 49, 50, 500, 501}

\* the practices of the repeated calls
FullPractice ==
    [practice |-> "Publish the minutes", category |-> "Transparent Governance",
     context |-> "Board meetings", impact |-> "Trust",
     evidence |-> Evidence(WordsText(11)), is_best_practice |-> TRUE]
PlainPractice ==
    [practice |-> "Review the budget", category |-> "Governance",
     context |-> "Finance committee", impact |-> "Control",
     evidence |-> Evidence(WordsText(1)), is_best_practice |-> FALSE]
PartialPractice == [FullPractice EXCEPT !.impact = MISSING]
NullPractice == [FullPractice EXCEPT !.category = NONE]

PracticeLists ==
    {<<>>, <<FullPractice>>, <<PlainPractice>>, <<PlainPractice, FullPractice>>,
     <<PartialPractice, PlainPractice>>, <<FullPractice, NullPractice>>}

ChunkAnalyses ==
    FailedAnalyses \cup {Analysis(FALSE, <<>>), Analysis(FALSE, <<FullPractice>>)}
        \cup {Analysis(TRUE, l) : l \in PracticeLists}

\* chunks of two documents, two of them with the same text
ExChunks ==
    {Chunk(1, 1, WordsText(1)), Chunk(1, 2, WordsText(2)), Chunk(2, 3, WordsText(1))}

MaxExtractCalls == 2

\* the capacity of the caches: if len(self._cache) > 1000
CacheLimit == 1000

\* calls made when a cache is filled beyond its capacity
MaxFill == 1002

\* the n-th of a series of different texts: n written in binary letters
RECURSIVE FreshText(_)
FreshText(n) ==
    IF n < 2 THEN <<IF n = 1 THEN "b" ELSE "a">>
    ELSE Append(FreshText(n \div 2), IF n % 2 = 1 THEN "b" ELSE "a")

(***************************************************************************)
(* One ThemeAnalyzer called directly: analyze_practice.                    *)
(***************************************************************************)
\* as ThemeCacheKey, the time being the one of the analysis
ThemeCacheKey_ByAnalysisTime(practice) ==
    [id |-> practice.id, extraction_time |-> practice.analysis_time]

\* ThemeAnalyzer._get_cache_key: f"{practice.id}:{practice.extraction_time}"
ThemeCacheKey(practice) == [id |-> practice.id, extraction_time |-> practice.extraction_time]

\* the number of occurrences of t in a list
CountIn(themes, t) == Cardinality({i \in 1..Len(themes) : themes[i] = t})

\* Counter[t]: 0 for a theme never counted
CounterGet(counter, t) == IF DictHas(counter, t) THEN DictGet(counter, t) ELSE 0

\* Counter.update over a list: one more for each element, a new theme being
\* entered behind the themes already counted
RECURSIVE CountEach(_, _)
CountEach(counter, themes) ==
    IF themes = <<>> THEN counter
    ELSE CountEach(DictSet(counter, Head(themes), CounterGet(counter, Head(themes)) + 1),
                   Tail(themes))

\* the elements of a list, each at its first occurrence only
Distinct(themes) ==
    LET first(i) == \A j \in 1..(i - 1) : themes[j] # themes[i]
        at == {i \in 1..Len(themes) : first(i)}
        nth(k) == CHOOSE i \in at : Cardinality({j \in at : j < i}) = k - 1
    IN [k \in 1..Cardinality(at) |-> themes[nth(k)]]

\* as CounterUpdate, a theme being counted once for an answer
CounterUpdate_OncePerAnswer(counter, themes) == CountEach(counter, Distinct(themes))

\* self.theme_frequency.update(analysis['themes'])
CounterUpdate(counter, themes) == CountEach(counter, themes)

\* as KnownUpdate, the themes of the answer replacing the known ones
KnownUpdate_Replace(known, themes) == SeqToSet(themes)

\* self.known_themes.update(analysis['themes'])
KnownUpdate(known, themes) == known \cup SeqToSet(themes)

\* Counter.most_common(n): the n highest counts first, themes of equal count in
\* the order in which they were first counted
most_common(counter, n) ==
    LET before(j, i) == \/ counter[j].value > counter[i].value
                        \/ counter[j].value = counter[i].value /\ j < i
        rank(i) == Cardinality({j \in 1..Len(counter) : before(j, i)})
        at(k) == CHOOSE i \in 1..Len(counter) : rank(i) = k - 1
    IN [k \in 1..Min(n, Len(counter)) |-> counter[at(k)].key]

\* the numbers the prompt asks for: themes (max 3), keywords (max 5)
MaxThemes == 3
MaxKeywords == 5

\* the number of themes ThemeAnalyzer names as the most frequent
TopThemes == 5

\* ThemeAnalyzer._construct_theme_prompt: top_themes is computed and printed,
\* the text names the finding and the themes and keywords the caller handed in
_construct_theme_prompt(counter, practice, all_themes, all_keywords) ==
    LET top_themes == most_common(counter, TopThemes)
    IN [practice |-> practice.id,
        common_themes |-> all_themes,
        common_keywords |-> all_keywords]

\* as EvictIfOver, the entry inserted last being removed (dict.popitem)
EvictIfOver_PopItem(cache) ==
    IF Len(cache) > CacheLimit THEN SubSeq(cache, 1, Len(cache) - 1) ELSE cache

\* if len(self._cache) > 1000: self._cache.pop(next(iter(self._cache)))
EvictIfOver(cache) ==
    IF Len(cache) > CacheLimit THEN Tail(cache) ELSE cache

\* the keys a cache lost between two states, first lost first
LostKeys(before, after_) ==
    LET kept(e) == ~DictHas(after_, e.key)
        lost == SelectSeq(before, kept)
    IN [i \in 1..Len(lost) |-> lost[i].key]

\* the n-th finding handed to the analyzer, as process_chunk created it
FreshPractice(n) ==
    [id |-> n, document |-> 1, extraction_time |-> "0.5",
     themes |-> <<"Governance">>, keywords |-> <<"budget">>, analysis_time |-> NONE]

\* an answer of the model to the theme prompt: the JSON keys it has, its lists
ThemeAnswer(themes, keywords) ==
    [kind |-> "json", has |-> {"themes", "keywords"}, themes |-> themes,
     keywords |-> keywords]

ThemeAnalysis == ThemeAnswer(<<"Transparency">>, <<"minutes">>)

\* no answer: the call was served from the cache
NoThemeAnswer == [kind |-> "none", has |-> {}, themes |-> <<>>, keywords |-> <<>>]

\* the answers of the model: one theme, two, the same theme twice, more lists
\* than the prompt asks for, a JSON object without keywords, no JSON at all
ThemeAnalyses ==
    {ThemeAnalysis,
     ThemeAnswer(<<"Accountability", "Transparency">>, <<"audit", "board">>),
     ThemeAnswer(<<"Risk", "Risk">>, <<"register">>),
     ThemeAnswer(<<"Equality", "Finance", "Culture", "Safeguarding">>,
                 <<"policy", "training", "budget", "review", "survey", "code">>),
     [ThemeAnswer(<<"Accountability">>, <<>>) EXCEPT !.has = {"themes"}],
     [NoThemeAnswer EXCEPT !.kind = "malformed"]}

\* the themes and keywords of other reports a caller hands in
AllThemes == {{}, {"Safeguarding", "Volunteers"}}
AllKeywords == {{"budget"}}

\* the state of th_last before any call
NoThemeCall ==
    [called |-> FALSE, practice |-> 0, hit |-> FALSE, asked |-> FALSE,
     top_themes |-> <<>>,
     prompt |-> [practice |-> 0, common_themes |-> {}, common_keywords |-> {}],
     answer |-> NoThemeAnswer]

VARIABLES
    th_known,      \* ThemeAnalyzer.known_themes
    th_frequency,  \* ThemeAnalyzer.theme_frequency
    th_cache,      \* ThemeAnalyzer._cache, entries in insertion order
    th_rows,       \* BestPractice rows as saved by analyze_practice
    th_result,     \* what the last call of analyze_practice returned
    th_inserted,   \* the cache keys in the order of their insertion
    th_evicted,    \* the cache keys evicted, in the order of eviction
    th_last,       \* the last call of analyze_practice: its finding, prompt and answer
    th_returned,   \* every theme the model returned, in the order of the answers
    th_tasks       \* the calls of analyze_practice running concurrently

themeVars ==
    <<th_known, th_frequency, th_cache, th_rows, th_result, th_inserted, th_evicted,
      th_last, th_returned, th_tasks>>

(***************************************************************************)
(* One VectorStore called directly: generate_embedding and its cache.      *)
(* Time is counted in hours.                                               *)
(***************************************************************************)
\* self._cache_ttl = timedelta(hours=24)
CacheTtl == 24

\* if len(self._embedding_cache) > 1000
EmbeddingCacheLimit == 1000

\* VectorStore._get_cache_key: hash(text) of the text as given
EmbeddingCacheKey(text) == Hash(text)

\* VectorStore._clean_text
_clean_text(text) == join(split(text))

\* the vector the embedder gives for an input
Embed(cleaned_text) == [vector_of |-> cleaned_text]

\* as IsFresh, an entry being served up to and including its expiry time
IsFresh_UntilExpiry(entry, now) == now <= entry.expires

\* datetime.now() < cache_entry['expires']
IsFresh(entry, now) == now < entry.expires

\* the expiry times of the entries of the cache, in its order
Expiries(cache) == [i \in 1..Len(cache) |-> cache[i].value.expires]

\* the entries kept by the sweep: v['expires'] > now
Unexpired(cache, now) ==
    LET keep(e) == e.value.expires > now
    IN SelectSeq(cache, keep)

\* while len(self._embedding_cache) > 1000: pop the first key
TrimOldest(cache) ==
    IF Len(cache) > EmbeddingCacheLimit
    THEN SubSeq(cache, Len(cache) - EmbeddingCacheLimit + 1, Len(cache))
    ELSE cache

\* as _clean_cache, the expired entries not being removed
_clean_cache_OldestOnly(cache, now) == TrimOldest(cache)

\* VectorStore._clean_cache
_clean_cache(cache, now) == TrimOldest(Unexpired(cache, now))

\* as MaintainSize, the sweep starting one entry later
MaintainSize_Late(cache, now) ==
    IF Len(cache) > EmbeddingCacheLimit + 1 THEN _clean_cache(cache, now) ELSE cache

\* generate_embedding, lines 79-82: maintain cache size
MaintainSize(cache, now) ==
    IF Len(cache) > EmbeddingCacheLimit THEN _clean_cache(cache, now) ELSE cache

\* texts handed to generate_embedding
EmbedTexts == {<<"a">>, <<"a", " ", "b">>, <<"a", " ", " ", "b">>}

\* the clock of the small runs: it advances by half a TTL, up to MaxClock
ClockStep == CacheTtl \div 2
MaxClock == 48

\* calls of the small runs that reach the embedder
MaxEmbedCalls == 3

\* findings of the small runs of the analyzer, themes returned before they stop
MaxFindings == 3
MaxReturned == 5

\* calls of analyze_practice running at once
MaxTasks == 2

\* the numbers of entries at which the TTL may elapse while a cache is filled
ElapseAt == {EmbeddingCacheLimit \div 2, EmbeddingCacheLimit}

VARIABLES
    vs_cache,    \* VectorStore._embedding_cache, entries in insertion order
    vs_now,      \* datetime.now()
    vs_result,   \* what the last call of generate_embedding returned
    vs_last,     \* the last call: what it found and what it did
    vs_calls     \* number of calls that reached the embedder

embedVars == <<vs_cache, vs_now, vs_result, vs_last, vs_calls>>

\* no call of generate_embedding made yet
NoEmbedCall ==
    [called |-> FALSE, text |-> <<>>, at |-> 0, had_entry |-> FALSE, prev_expires |-> 0,
     embedded |-> FALSE, raised |-> FALSE, stored |-> FALSE, swept |-> FALSE,
     size_before |-> 0, unexpired_before |-> <<>>, expiries_before |-> <<>>]

(***************************************************************************)
(* DocumentPageExtractor: the pages of a PDF, DOCX or ODT file.            *)
(***************************************************************************)
\* '\n'.join(current_page)
RECURSIVE JoinLines(_)
JoinLines(lines) ==
    IF lines = <<>> THEN <<>>
    ELSE IF Len(lines) = 1 THEN lines[1]
    ELSE lines[1] \o <<"\n">> \o JoinLines(Tail(lines))

\* '\f' in paragraph.text
HasPageBreak(paragraph) == \E i \in 1..Len(paragraph) : paragraph[i] = "\f"

\* the state of an extraction loop before the first paragraph
NoPages == [pages |-> <<>>, current_page |-> <<>>, page_number |-> 1]

\* the page collected so far is appended unless it is blank
Flush(st) ==
    LET content == JoinLines(st.current_page)
    IN IF NotBlank(content) THEN Append(st.pages, <<content, st.page_number>>) ELSE st.pages

\* extract_pdf_pages, lines 58-70: the text of page page_num, numbered from 1
RECURSIVE extract_pdf_pages(_)
extract_pdf_pages(doc) ==
    IF doc = <<>> THEN <<>>
    ELSE LET earlier == extract_pdf_pages(SubSeq(doc, 1, Len(doc) - 1))
             content == doc[Len(doc)]
         IN IF NotBlank(content) THEN Append(earlier, <<content, Len(doc)>>) ELSE earlier

\* as DocxStep, a page break not moving to the next page number when the
\* page before it was blank
DocxStep_CountsWrittenPages(st, paragraph) ==
    IF HasPageBreak(paragraph) \/ st.current_page = <<>>
    THEN IF st.current_page # <<>>
         THEN [pages |-> Flush(st), current_page |-> <<paragraph>>,
               page_number |-> IF NotBlank(JoinLines(st.current_page))
                               THEN st.page_number + 1 ELSE st.page_number]
         ELSE [st EXCEPT !.current_page = <<paragraph>>]
    ELSE [st EXCEPT !.current_page = Append(st.current_page, paragraph)]

\* one pass of the loop of extract_docx_pages, lines 80-90
DocxStep(st, paragraph) ==
    IF HasPageBreak(paragraph) \/ st.current_page = <<>>
    THEN IF st.current_page # <<>>
         THEN [pages |-> Flush(st), current_page |-> <<paragraph>>,
               page_number |-> st.page_number + 1]
         ELSE [st EXCEPT !.current_page = <<paragraph>>]
    ELSE [st EXCEPT !.current_page = Append(st.current_page, paragraph)]

RECURSIVE DocxLoop(_, _)
DocxLoop(st, paragraphs) ==
    IF paragraphs = <<>> THEN st
    ELSE DocxLoop(DocxStep(st, Head(paragraphs)), Tail(paragraphs))

\* extract_docx_pages, lines 72-101
extract_docx_pages(paragraphs) ==
    LET st == DocxLoop(NoPages, paragraphs)
    IN IF st.current_page # <<>> THEN Flush(st) ELSE st.pages

\* one pass of the loop of extract_odt_pages, lines 111-122
OdtStep(st, content) ==
    IF ~NotBlank(content) /\ st.current_page # <<>>
    THEN [pages |-> Flush(st), current_page |-> <<>>, page_number |-> st.page_number + 1]
    ELSE [st EXCEPT !.current_page = Append(st.current_page, content)]

RECURSIVE OdtLoop(_, _)
OdtLoop(st, paragraphs) ==
    IF paragraphs = <<>> THEN st
    ELSE OdtLoop(OdtStep(st, Head(paragraphs)), Tail(paragraphs))

\* extract_odt_pages, lines 103-131
extract_odt_pages(paragraphs) ==
    LET st == OdtLoop(NoPages, paragraphs)
    IN IF st.current_page # <<>> THEN Flush(st) ELSE st.pages

\* the texts of the pages of a PDF file and of the paragraphs of a DOCX or
\* ODT file: empty, blank, with text, with a page break
ParagraphTexts == {<<>>, <<" ">>, <<"a">>, <<"\f">>, <<"\f", "b">>}

\* files of up to MaxParagraphs pages or paragraphs
MaxParagraphs == 4

RECURSIVE Files(_)
Files(n) ==
    IF n = 0 THEN {<<>>}
    ELSE LET shorter == Files(n - 1)
         IN shorter \cup {Append(f, t) : f \in {g \in shorter : Len(g) = n - 1},
                                         t \in ParagraphTexts}

\* no file given to an extractor yet
NoExtraction == [called |-> FALSE, file_type |-> "", file |-> <<>>, pages |-> <<>>]

VARIABLES
    px_last,     \* the last call of an extractor: the file and the pages returned
    dr_files,    \* the files of data_dir while documents are processed together
    dr_runs      \* the process_document calls in progress, one per document

pageVars == <<px_last, dr_files, dr_runs>>

(***************************************************************************)
(* The files of data_dir: process_document calls running together share    *)
(* the directory self.data_dir of their processors.                        *)
(***************************************************************************)
\* a file of data_dir holds the bytes a run wrote
FileExists(files, path) == \E f \in files : f.path = path
FileContent(files, path) == (CHOOSE f \in files : f.path = path).content

\* open(file_path, 'wb').write / pdf_document.save: the file is replaced
WriteFile(files, path, content) ==
    {f \in files : f.path # path} \cup {[path |-> path, content |-> content]}

\* Path.unlink
Unlink(files, path) == {f \in files : f.path # path}

\* self.data_dir / f"temp_page_{page_num}.pdf"
TempPath(page_num) == "temp_page_" \o ToString(page_num) \o ".pdf"

\* documents processed together have up to MaxRunPages pages each
MaxRunPages == 2
MaxRuns == 2

RunFileNames == {"report.pdf", "report.docx", "report"}

\* a process_document call that has not begun: its document, the name of its
\* file, its pages 1..pages, and what it did to files of other runs
Run(filename, pages) ==
    [filename |-> filename, pages |-> pages, pc |-> "download", page_num |-> 0,
     downloaded_file |-> NONE, raised |-> FALSE, foreign |-> {}]

\* what run r does to the file at path when it reads, replaces or removes it
Touches(files, path, r, how) ==
    IF FileExists(files, path) /\ FileContent(files, path) # r THEN {how} ELSE {}

(***************************************************************************)
(* Similarity search: VectorStore.find_similar over the BestPractice rows  *)
(* and VectorService.similarity_search over the VectorDocument rows.       *)
(***************************************************************************)
Abs(x) == IF x < 0 THEN -x ELSE x

\* the number the embedder gives for a text, in tenths: vectors of one
\* dimension, whose Euclidean distance is exact
Coordinate(embedding) == 4 * Len(embedding.vector_of)

\* pgvector L2Distance, in tenths
L2Distance(embedding, query_embedding) ==
    Abs(Coordinate(embedding) - Coordinate(query_embedding))

\* the texts of the findings stored and of the queries
SearchTexts == {<<"a">>, <<"a", "b">>, <<"a", " ", "b">>, <<"a", " ", "b", " ", "c">>}
SearchQueries == {<<"a">>}

\* the limits and distance thresholds (in tenths) of the searches; 0.8 is the default
MaxLimit == 2
DefaultThreshold == 8
Thresholds == {4, DefaultThreshold}

\* findings stored and calls of the embedder in the runs of the search
MaxStored == 3
MaxSearchCalls == MaxStored + 1

\* a BestPractice row: embedding is NULL until store_practice saved one
StoredPractice(id, text) == [id |-> id, text |-> text, has_embedding |-> FALSE,
                             embedding |-> Embed(<<>>)]

\* as WithinThreshold, the threshold itself being excluded
WithinThreshold_Strict(row, query_embedding, threshold) ==
    row.has_embedding /\ L2Distance(row.embedding, query_embedding) < threshold

\* filter(distance__lte=threshold): a NULL distance passes no filter
WithinThreshold(row, query_embedding, threshold) ==
    row.has_embedding /\ L2Distance(row.embedding, query_embedding) <= threshold

\* the orders a list may be returned in by ORDER BY distance: rows of equal
\* distance come in any order
OrderedByDistance(rows, query_embedding) ==
    {order \in [1..Len(rows) -> 1..Len(rows)] :
        /\ \A i, j \in 1..Len(rows) : i # j => order[i] # order[j]
        /\ \A i \in 1..(Len(rows) - 1) :
              L2Distance(rows[order[i]].embedding, query_embedding)
                 <= L2Distance(rows[order[i + 1]].embedding, query_embedding)}

\* results[:limit]
Truncate(results, limit) == SubSeq(results, 1, Min(limit, Len(results)))

\* the lists the query of find_similar may return, lines 170-176
FindSimilarResults(rows, query_embedding, limit, threshold) ==
    LET within(row) == WithinThreshold(row, query_embedding, threshold)
        kept == SelectSeq(rows, within)
    IN {Truncate([i \in 1..Len(kept) |-> kept[order[i]]], limit) :
           order \in OrderedByDistance(kept, query_embedding)}

\* no call of find_similar made yet
NoSearch ==
    [called |-> FALSE, raised |-> FALSE, query_embedding |-> Embed(<<>>), limit |-> 0,
     threshold |-> 0, rows |-> <<>>, results |-> <<>>]

\* the vector the embedder of VectorService gives for a text: two dimensions,
\* whole lengths, so that the cosine distance is exact
ServiceEmbed(text) ==
    CASE text = "shipping" -> <<5, 0>>
      [] text = "returns" -> <<3, 4>>
      [] OTHER -> <<0, 5>>

Dot(u, v) == u[1] * v[1] + u[2] * v[2]
Norm(v) == CHOOSE n \in 0..(Abs(v[1]) + Abs(v[2])) : n * n = Dot(v, v)

\* pgvector CosineDistance, in hundredths: 1 - cos
CosineDistance(embedding, query_embedding) ==
    100 - (100 * Dot(embedding, query_embedding))
             \div (Norm(embedding) * Norm(query_embedding))

\* the documents create_document is called with: content and metadata
DocumentInputs ==
    {[content |-> "shipping", metadata |-> <<[key |-> "category", value |-> "shipping"]>>],
     [content |-> "returns", metadata |-> <<[key |-> "category", value |-> "shipping"],
                                            [key |-> "region", value |-> "wales"]>>],
     [content |-> "careers", metadata |-> <<>>]}

\* the metadata_filters of a search: none, a dict, a string, a list
NoFilter == [kind |-> "none", items |-> <<>>, text |-> "", names |-> <<>>]
DictFilter(items) == [NoFilter EXCEPT !.kind = "dict", !.items = items]
MetadataFilters ==
    {NoFilter,
     DictFilter(<<>>),
     DictFilter(<<[key |-> "category", value |-> "shipping"]>>),
     DictFilter(<<[key |-> "category", value |-> "shipping"],
                  [key |-> "region", value |-> "wales"]>>),
     [NoFilter EXCEPT !.kind = "str", !.text = "shipping"],
     [NoFilter EXCEPT !.kind = "list", !.names = <<"shipping", "payments">>]}

\* the time_range of a search: none, or a pair of dates
NoRange == [given |-> FALSE, start_date |-> 0, end_date |-> 0]
TimeRanges ==
    {NoRange, [given |-> TRUE, start_date |-> 1, end_date |-> 2],
     [given |-> TRUE, start_date |-> 2, end_date |-> 3]}

\* the threshold of a search, in hundredths: 0.8 is the default
DefaultServiceThreshold == 80

\* documents created in the runs of the search
MaxDocs == 3

\* r.metadata.get(k): None for a key the metadata does not have
MetadataGet(metadata, k) == IF DictHas(metadata, k) THEN DictGet(metadata, k) ELSE NONE

\* the metadata filter of _perform_search, lines 105-114: a string names the
\* category, a dict names values; an empty or any other filter keeps every document
PassesMetadata(r, metadata_filters) ==
    CASE metadata_filters.kind = "str" ->
            MetadataGet(r.metadata, "category") = metadata_filters.text
      [] metadata_filters.kind = "dict" ->
            \A i \in 1..Len(metadata_filters.items) :
                MetadataGet(r.metadata, metadata_filters.items[i].key)
                    = metadata_filters.items[i].value
      [] OTHER -> TRUE

\* the time filter, lines 117-119
PassesTime(r, time_range) ==
    time_range.given
        => (time_range.start_date <= r.created_at /\ r.created_at <= time_range.end_date)

\* VectorDocument.objects.all(): Meta.ordering = ['-created_at']
Newest(docs) == [i \in 1..Len(docs) |-> docs[Len(docs) + 1 - i]]

\* queryset.annotate(similarity=CosineDistance('embedding', query_embedding))
RECURSIVE Annotate(_, _)
Annotate(docs, query_embedding) ==
    IF docs = <<>> THEN <<>>
    ELSE LET r == Head(docs)
         IN <<[id |-> r.id, contents |-> r.contents, metadata |-> r.metadata,
               embedding |-> r.embedding, created_at |-> r.created_at,
               similarity |-> CosineDistance(r.embedding, query_embedding)]>>
            \o Annotate(Tail(docs), query_embedding)

\* a document put into a sorted list, behind the documents that are not farther
RECURSIVE InsertBySimilarity(_, _)
InsertBySimilarity(sorted, r) ==
    IF sorted = <<>> THEN <<r>>
    ELSE IF r.similarity < Head(sorted).similarity THEN <<r>> \o sorted
    ELSE <<Head(sorted)>> \o InsertBySimilarity(Tail(sorted), r)

\* results.sort(key=lambda x: x.similarity): documents of equal distance keep their order
RECURSIVE SortBySimilarity(_)
SortBySimilarity(results) ==
    IF results = <<>> THEN <<>>
    ELSE InsertBySimilarity(SortBySimilarity(SubSeq(results, 1, Len(results) - 1)),
                            results[Len(results)])

\* as _perform_search, the top results being taken before the filters
_perform_search_TruncateFirst(docs, query_embedding, limit, filters, time_range, threshold) ==
    LET passes(r) == PassesMetadata(r, filters) /\ PassesTime(r, time_range)
        sorted == SortBySimilarity(Annotate(Newest(docs), query_embedding))
    IN SelectSeq(Truncate(sorted, limit), passes)

\* VectorService._perform_search, lines 72-135: threshold is not read
_perform_search(docs, query_embedding, limit, filters, time_range, threshold) ==
    LET passes_metadata(r) == PassesMetadata(r, filters)
        passes_time(r) == PassesTime(r, time_range)
        sorted == SortBySimilarity(Annotate(Newest(docs), query_embedding))
    IN Truncate(SelectSeq(SelectSeq(sorted, passes_metadata), passes_time), limit)

\* no call of similarity_search made yet
NoServiceSearch ==
    [called |-> FALSE, raised |-> FALSE, query_embedding |-> <<0, 5>>, limit |-> 0,
     metadata_filters |-> NoFilter, time_range |-> NoRange, threshold |-> 0,
     docs |-> <<>>, results |-> <<>>]

VARIABLES
    vs_rows,     \* the BestPractice rows of the database
    vs_found,    \* the last call of find_similar: its arguments and results
    vd_docs,     \* the VectorDocument rows of the database, in the order of creation
    vd_found     \* the last call of similarity_search: its arguments and results

searchVars == <<vs_rows, vs_found, vd_docs, vd_found>>

serviceVars == <<extractorVars, themeVars, embedVars, searchVars, pageVars>>

(***************************************************************************)
(* The worker pool of process_document: one future per page batch.         *)
(***************************************************************************)
VARIABLES
    batch_state,   \* per batch: "queued" | "running" | "finished" | "raised"
    finish_order   \* the batches in the order their workers ended

poolVars == <<batch_state, finish_order>>

componentVars == <<poolVars, serviceVars>>

vars == <<chunkerVars, pipelineVars, componentVars>>

(***************************************************************************)
(* Behaviour of the analysis request                                       *)
(***************************************************************************)
IdleChunker ==
    /\ chunker = TextChunker(DefaultChunkSize, DefaultOverlap)
    /\ tc_pc = "ready"
    /\ tc_text = <<>>
    /\ tc_words = <<>>
    /\ current_position = 0
    /\ tc_chunks = <<>>
    /\ tc_first = NoCall

IdlePipeline ==
    /\ pc = "idle"
    /\ request = NoRequest
    /\ response = NoResponse
    /\ document = NoDocument
    /\ db = EmptyDb
    /\ tx_snapshot = EmptyDb
    /\ disk = {}
    /\ downloaded_file = NONE
    /\ page_batches = <<>>
    /\ futures_done = 0
    /\ chunks = <<>>
    /\ chunk_idx = 1
    /\ practices = <<>>
    /\ extractor_cache = <<>>
    /\ next_practice_id = 1
    /\ status_writes = <<>>
    /\ failed_stage = NONE
    /\ env_fault = FALSE

\* an extractor on which process_chunk was never called
IdleExtractor ==
    /\ ex_cache = <<>>
    /\ ex_rows = <<>>
    /\ ex_result = NoResult
    /\ ex_last = [text |-> <<>>, document |-> 0, page_number |-> 0, hit |-> FALSE,
                  answer |-> NoAnswer]
    /\ ex_computed = <<>>
    /\ ex_calls = 0

\* no batch submitted
IdlePool ==
    /\ batch_state = <<>>
    /\ finish_order = <<>>

\* a ThemeAnalyzer on which analyze_practice was never called
IdleAnalyzer ==
    /\ th_known = {}
    /\ th_frequency = <<>>
    /\ th_cache = <<>>
    /\ th_rows = <<>>
    /\ th_result = NoResult
    /\ th_inserted = <<>>
    /\ th_evicted = <<>>
    /\ th_last = NoThemeCall
    /\ th_returned = <<>>
    /\ th_tasks = <<>>

\* a VectorStore on which generate_embedding was never called
IdleStore ==
    /\ vs_cache = <<>>
    /\ vs_now = 0
    /\ vs_result = NoResult
    /\ vs_last = NoEmbedCall
    /\ vs_calls = 0
    /\ vs_rows = <<>>
    /\ vs_found = NoSearch
    /\ vd_docs = <<>>
    /\ vd_found = NoServiceSearch

\* no file given to an extractor
IdlePages == px_last = NoExtraction /\ dr_files = {} /\ dr_runs = <<>>

IdleServices == IdlePool /\ IdleExtractor /\ IdleAnalyzer /\ IdleStore

IdleComponents == IdleServices /\ IdlePages

Init == IdlePipeline /\ IdleChunker /\ IdleComponents

\* document.save(): the stored row of the document takes the in-memory values
Save(rows, doc) ==
    [rows EXCEPT !.documents = {d \in @ : d.id # doc.id} \cup {doc}]

\* the handler ends by an exception raised before a document exists
RaiseBeforeCreate(req, msg) ==
    /\ response' = [status |-> 500, message |-> msg]
    /\ pc' = "done"
    /\ document' = NoDocument
    /\ status_writes' = <<>>
    /\ failed_stage' = "request"
    /\ UNCHANGED <<db, tx_snapshot>>

\* analyze_documents, lines 28-64: read the request, validate, create the
\* document inside transaction.atomic() and construct the services
ReceiveFrom(reqs) ==
    /\ pc = "idle"
    /\ \E req \in reqs :
          /\ request' = req
          /\ IF req.file_url = NONE
             THEN \* file_size = len(file_url.encode('utf-8')) on None
                  RaiseBeforeCreate(req, "AttributeError")
             ELSE IF MissingRequiredFields(req)
             THEN /\ response' = [status |-> 400, message |-> "Missing required fields"]
                  /\ pc' = "done"
                  /\ document' = NoDocument
                  /\ status_writes' = <<>>
                  /\ failed_stage' = NONE
                  /\ UNCHANGED <<db, tx_snapshot>>
             ELSE IF req.file_name = NONE
             THEN \* filename is a NOT NULL column: objects.create raises
                  RaiseBeforeCreate(req, "IntegrityError")
             ELSE LET doc == [id                  |-> 1,
                              pinata_id           |-> req.file_id,
                              url                 |-> req.file_url,
                              filename            |-> req.file_name,
                              mime_type           |-> req.file_type,
                              file_size           |-> Len(req.file_url),
                              total_pages         |-> 0,
                              processed_status    |-> "PENDING",
                              processing_duration |-> NONE,
                              error_message       |-> NONE]
                  IN /\ tx_snapshot' = db
                     /\ db' = Save(db, doc)
                     /\ document' = doc
                     /\ status_writes' = <<"PENDING">>
                     /\ response' = NoResponse
                     /\ failed_stage' = NONE
                     /\ pc' = "process_document"
    /\ downloaded_file' = NONE
    /\ page_batches' = <<>>
    /\ futures_done' = 0
    /\ chunks' = <<>>
    /\ chunk_idx' = 1
    /\ practices' = <<>>
    /\ extractor_cache' = <<>>
    /\ env_fault' = FALSE
    /\ UNCHANGED <<disk, next_practice_id>>
    /\ UNCHANGED <<chunkerVars, componentVars>>

Receive == ReceiveFrom(Requests)

\* process_document, lines 336-349, and the unwinding through the view: the
\* except clause records FAILED, the finally clause removes the download it
\* knows of, and transaction.atomic() rolls the rows back
ProcessDocumentRaises(msg, stage, fault, disk_now) ==
    /\ document' = [document EXCEPT !.processed_status = "FAILED", !.error_message = msg]
    /\ status_writes' = Append(status_writes, "FAILED")
    /\ disk' = IF downloaded_file # NONE THEN disk_now \ {downloaded_file} ELSE disk_now
    /\ db' = tx_snapshot
    /\ response' = [status |-> 500, message |-> msg]
    /\ failed_stage' = stage
    /\ env_fault' = fault
    /\ pc' = "done"
    /\ UNCHANGED <<request, tx_snapshot, downloaded_file, page_batches,
                   futures_done, chunks, chunk_idx, practices, extractor_cache,
                   next_practice_id>>

\* an exception raised in analyze_documents after process_document returned:
\* no handler, transaction.atomic() rolls the rows back
ViewRaises(msg, stage, fault) ==
    /\ db' = tx_snapshot
    /\ response' = [status |-> 500, message |-> msg]
    /\ failed_stage' = stage
    /\ env_fault' = fault
    /\ pc' = "done"
    /\ UNCHANGED <<request, document, tx_snapshot, disk, downloaded_file,
                   page_batches, futures_done, chunks, chunk_idx, status_writes>>

\* process_document, lines 263-278
MarkProcessing ==
    /\ pc = "process_document"
    /\ LET doc == [document EXCEPT !.processed_status = "PROCESSING",
                                   !.file_size = Len(document.url),
                                   !.mime_type = _get_mime_type(document.filename)]
       IN /\ document' = doc
          /\ db' = Save(db, doc)
    /\ status_writes' = Append(status_writes, "PROCESSING")
    /\ pc' = "get_file_path"
    /\ UNCHANGED <<request, response, tx_snapshot, disk, downloaded_file,
                   page_batches, futures_done, chunks, chunk_idx, practices,
                   extractor_cache, next_practice_id, failed_stage, env_fault>>
    /\ UNCHANGED <<chunkerVars, componentVars>>

\* process_document, lines 281-282: _get_file_path and _download_file
GetFilePath ==
    /\ pc = "get_file_path"
    /\ IF StartsWithHttp(document.url)
       THEN LET file_path == DownloadPath(document.filename)
            IN \E outcome \in {"ok", "fetch_error", "write_error"} :
                  CASE outcome = "ok" ->
                         /\ disk' = disk \cup {file_path}
                         /\ downloaded_file' = file_path
                         /\ pc' = "extract_pages"
                         /\ UNCHANGED <<request, response, document, db,
                                        tx_snapshot, page_batches, futures_done, chunks,
                                        chunk_idx, practices, extractor_cache,
                                        next_practice_id, status_writes, failed_stage,
                                        env_fault>>
                    [] outcome = "fetch_error" ->
                         \* requests.get or raise_for_status raises: nothing written
                         /\ ProcessDocumentRaises("DownloadError", "download", TRUE, disk)
                    [] outcome = "write_error" ->
                         \* open(file_path, 'wb') created the file, f.write raises
                         /\ ProcessDocumentRaises("OSError", "download", TRUE,
                                                  disk \cup {file_path})
       ELSE /\ pc' = "extract_pages"
            /\ UNCHANGED <<request, response, document, db, tx_snapshot,
                           disk, downloaded_file, page_batches, futures_done, chunks,
                           chunk_idx, practices, extractor_cache, next_practice_id,
                           status_writes, failed_stage, env_fault>>
    /\ UNCHANGED <<chunkerVars, componentVars>>

\* process_document, lines 285-302: _process_document_pages dispatches on
\* document.mime_type; the pages are grouped in batches
ExtractPagesFrom(page_lists) ==
    /\ pc = "extract_pages"
    /\ IF document.mime_type \notin SupportedMimeTypes
       THEN /\ ProcessDocumentRaises("Unsupported file type", "page_extraction", env_fault, disk)
            /\ UNCHANGED poolVars
       ELSE \/ \* the format library fails on the file
               /\ ProcessDocumentRaises("ParseError", "page_extraction", TRUE, disk)
               /\ UNCHANGED poolVars
            \/ \E pages \in page_lists :
                  /\ document' = [document EXCEPT !.total_pages = Len(pages)]
                  /\ page_batches' = MakeBatches(pages)
                  /\ batch_state' = Submitted(Len(MakeBatches(pages)))
                  /\ finish_order' = <<>>
                  /\ futures_done' = 0
                  /\ pc' = "page_batches"
                  /\ UNCHANGED <<request, response, db, tx_snapshot, disk,
                                 downloaded_file, chunks, chunk_idx, practices,
                                 extractor_cache, next_practice_id, status_writes,
                                 failed_stage, env_fault>>
    /\ UNCHANGED <<chunkerVars, serviceVars>>

ProcessDocumentPages == ExtractPagesFrom(PageLists(MaxPages))

\* _process_page_batch ends in a worker of the pool, with its results or with
\* the exception of parser.load_data; the worker takes the next queued batch
WorkerFinishes ==
    /\ pc = "page_batches"
    /\ \E i \in 1..Len(batch_state), outcome \in {"finished", "raised"} :
          /\ batch_state[i] = "running"
          /\ batch_state' = NextStarted([batch_state EXCEPT ![i] = outcome])
          /\ finish_order' = Append(finish_order, i)
    /\ UNCHANGED pipelineVars
    /\ UNCHANGED <<chunkerVars, serviceVars>>

\* as TakeBatchResult, the futures being taken in the order of completion
TakeBatchResult_AsCompleted ==
    /\ pc = "page_batches"
    /\ futures_done < Len(finish_order)
    /\ IF batch_state[finish_order[futures_done + 1]] = "raised"
       THEN ProcessDocumentRaises("ParseError", "page_batch", TRUE, disk)
       ELSE LET page_chunks == BatchChunks(page_batches[finish_order[futures_done + 1]],
                                           document.id, Len(chunks) + 1)
            IN /\ db' = [db EXCEPT !.chunks = @ \cup SeqToSet(page_chunks)]
               /\ chunks' = chunks \o page_chunks
               /\ futures_done' = futures_done + 1
               /\ UNCHANGED <<pc, request, response, document, tx_snapshot,
                              disk, downloaded_file, page_batches, chunk_idx, practices,
                              extractor_cache, next_practice_id, status_writes,
                              failed_stage, env_fault>>
    /\ UNCHANGED <<chunkerVars, componentVars>>

\* process_document, lines 309-317 for one future, the futures being taken in
\* the order of submission: future.result() waits for the worker of that
\* batch, re-raises its exception, or its results are chunked and stored
TakeBatchResult ==
    /\ pc = "page_batches"
    /\ futures_done < Len(page_batches)
    /\ batch_state[futures_done + 1] \in {"finished", "raised"}
    /\ IF batch_state[futures_done + 1] = "raised"
       THEN ProcessDocumentRaises("ParseError", "page_batch", TRUE, disk)
       ELSE LET page_chunks == BatchChunks(page_batches[futures_done + 1],
                                           document.id, Len(chunks) + 1)
          IN /\ db' = [db EXCEPT !.chunks = @ \cup SeqToSet(page_chunks)]
             /\ chunks' = chunks \o page_chunks
             /\ futures_done' = futures_done + 1
             /\ UNCHANGED <<pc, request, response, document, tx_snapshot,
                            disk, downloaded_file, page_batches, chunk_idx, practices,
                            extractor_cache, next_practice_id, status_writes,
                            failed_stage, env_fault>>
    /\ UNCHANGED <<chunkerVars, componentVars>>

\* process_document, lines 319-349 on the path without exception, and the
\* return into analyze_documents (lines 70-80; generate_summary never raises)
CompleteProcessDocument ==
    /\ pc = "page_batches"
    /\ futures_done = Len(page_batches)
    /\ LET doc == [document EXCEPT !.processed_status = "COMPLETED",
                                   !.processing_duration = "duration"]
       IN /\ document' = doc
          /\ db' = Save(db, doc)
    /\ status_writes' = Append(status_writes, "COMPLETED")
    /\ disk' = IF downloaded_file # NONE THEN disk \ {downloaded_file} ELSE disk
    /\ chunk_idx' = 1
    /\ pc' = "extract"
    /\ UNCHANGED <<request, response, tx_snapshot, downloaded_file,
                   page_batches, futures_done, chunks, practices, extractor_cache,
                   next_practice_id, failed_stage, env_fault>>
    /\ UNCHANGED <<chunkerVars, componentVars>>

\* the BestPractice rows process_chunk creates for a response with n practices
NewPractices(chunk, n) ==
    [i \in 1..n |-> [id          |-> next_practice_id + i - 1,
                     document    |-> chunk.document,
                     page_number |-> chunk.page_number,
                     embedding   |-> NONE]]

\* analyze_documents, lines 83-86 for one chunk: extractor.process_chunk
\* (best_practice_extractor.py, lines 147-224) and the test of its result
ProcessChunk ==
    /\ pc = "extract"
    /\ chunk_idx <= Len(chunks)
    /\ LET chunk == chunks[chunk_idx]
       IN IF chunk.text \in DOMAIN extractor_cache
          THEN \* cache hit: a single BestPractice is returned and the view
               \* iterates over it
               /\ ViewRaises("TypeError", "extraction", env_fault)
               /\ UNCHANGED <<practices, extractor_cache, next_practice_id>>
          ELSE \E r \in ExtractionResponses :
                  IF r.kind # "json"
                  THEN \* the call, json.loads or analysis_data['criteria_met'] raises
                       /\ ViewRaises("ExtractionError", "extraction", TRUE)
                       /\ UNCHANGED <<practices, extractor_cache, next_practice_id>>
                  ELSE IF r.criteria_met = FALSE \/ r.practices = 0
                  THEN \* process_chunk returns None
                       /\ chunk_idx' = chunk_idx + 1
                       /\ UNCHANGED <<pc, request, response, document, db,
                                      tx_snapshot, disk, downloaded_file, page_batches,
                                      futures_done, chunks, practices, extractor_cache,
                                      next_practice_id, status_writes, failed_stage,
                                      env_fault>>
                  ELSE LET created == NewPractices(chunk, r.practices)
                       IN /\ db' = [db EXCEPT !.practices = @ \cup SeqToSet(created)]
                          /\ next_practice_id' = next_practice_id + r.practices
                          /\ extractor_cache' =
                                [t \in DOMAIN extractor_cache \cup {chunk.text} |->
                                    IF t = chunk.text THEN created[1]
                                    ELSE extractor_cache[t]]
                          /\ practices' = created
                          /\ pc' = "analyze"
                          /\ UNCHANGED <<request, response, document,
                                         tx_snapshot, disk, downloaded_file, page_batches,
                                         futures_done, chunks, chunk_idx, status_writes,
                                         failed_stage, env_fault>>
    /\ UNCHANGED <<chunkerVars, componentVars>>

\* analyze_documents, lines 87-88 for the first practice of the list:
\* analyzer.analyze_practice(practice) passes one argument to a function of
\* four parameters; with matching arguments the coroutine it returns is handed
\* to store_practice, which reads practice.text
AnalyzePractice ==
    /\ pc = "analyze"
    /\ IF AnalyzeCallArgs # AnalyzeParams
       THEN ViewRaises("TypeError", "classification", env_fault)
       ELSE ViewRaises("AttributeError", "embedding", env_fault)
    /\ UNCHANGED <<practices, extractor_cache, next_practice_id>>
    /\ UNCHANGED <<chunkerVars, componentVars>>

\* analyze_documents, lines 105-128: the loop over the chunks is over
FinishRequest ==
    /\ pc = "extract"
    /\ chunk_idx > Len(chunks)
    /\ LET doc == [document EXCEPT !.processed_status = "COMPLETED"]
       IN /\ document' = doc
          /\ db' = Save(db, doc)
    /\ status_writes' = Append(status_writes, "COMPLETED")
    /\ response' = [status |-> 200, message |-> "success"]
    /\ pc' = "done"
    /\ UNCHANGED <<request, tx_snapshot, disk, downloaded_file,
                   page_batches, futures_done, chunks, chunk_idx, practices,
                   extractor_cache, next_practice_id, failed_stage, env_fault>>
    /\ UNCHANGED <<chunkerVars, componentVars>>

Next ==
    \/ Receive
    \/ MarkProcessing
    \/ GetFilePath
    \/ ProcessDocumentPages
    \/ WorkerFinishes
    \/ TakeBatchResult
    \/ CompleteProcessDocument
    \/ ProcessChunk
    \/ AnalyzePractice
    \/ FinishRequest

Spec == Init /\ [][Next]_vars

\* process_document on stored PDF reports of many pages
PdfRequests ==
    {[file_name |-> "report.pdf", file_url |-> u, file_id |-> "Qm1", file_type |-> MIME_PDF] :
        u \in {HttpUrl, LocalUrl}}

ReceivePdf == ReceiveFrom(PdfRequests)

ProcessManyPages == ExtractPagesFrom(WidePageLists)

NextPages ==
    \/ ReceivePdf
    \/ MarkProcessing
    \/ GetFilePath
    \/ ProcessManyPages
    \/ WorkerFinishes
    \/ TakeBatchResult
    \/ CompleteProcessDocument

SpecPages == Init /\ [][NextPages]_vars

(***************************************************************************)
(* Behaviour of BestPracticeExtractor.process_chunk called directly        *)
(***************************************************************************)
\* one call of process_chunk, lines 147-224
ProcessChunkOn(chunk, analysis) ==
    LET r == process_chunk(ex_cache, ex_rows, chunk, analysis)
        cache_key == _get_cache_key(chunk.text)
    IN /\ ex_cache' = r.cache
       /\ ex_rows' = r.rows
       /\ ex_result' = r.result
       /\ ex_last' = [text |-> chunk.text, document |-> chunk.document,
                      page_number |-> chunk.page_number, hit |-> r.hit,
                      answer |-> IF r.hit THEN NoAnswer ELSE analysis]
       /\ ex_computed' = IF ~r.hit /\ r.result.kind = "list"
                         THEN DictSet(ex_computed, cache_key, r.result)
                         ELSE ex_computed
       /\ ex_calls' = ex_calls + 1
       /\ UNCHANGED <<chunkerVars, pipelineVars, poolVars, pageVars, searchVars, themeVars, embedVars>>

\* process_chunk on any chunk, the model answering anything
ProcessChunkCall ==
    /\ ex_calls < MaxExtractCalls
    /\ \E chunk \in ExChunks, analysis \in ChunkAnalyses : ProcessChunkOn(chunk, analysis)

SpecExtractor == Init /\ [][ProcessChunkCall]_vars

\* process_chunk on a chunk of word_count words, the model answering one
\* practice of any shape
ProcessChunkScored ==
    /\ ex_calls = 0
    /\ \E practice_data \in WidePracticeData, word_count \in WordCounts :
          ProcessChunkOn(Chunk(1, 1, WordsText(word_count)),
                         Analysis(TRUE, <<practice_data>>))

SpecScore == Init /\ [][ProcessChunkScored]_vars

\* process_chunk on chunk after chunk of different texts, each with a finding
ProcessFreshChunk ==
    /\ ex_calls < MaxFill
    /\ ProcessChunkOn(Chunk(1, ex_calls + 1, FreshText(ex_calls + 1)),
                      Analysis(TRUE, <<PlainPractice>>))

SpecExtractorFill == Init /\ [][ProcessFreshChunk]_vars

(***************************************************************************)
(* Behaviour of ThemeAnalyzer.analyze_practice called directly             *)
(***************************************************************************)
\* the finding as analyze_practice saves it, lines 147-150
Analysed(practice, analysis) ==
    [practice EXCEPT !.themes = analysis.themes,
                     !.keywords = analysis.keywords,
                     !.analysis_time = "duration"]

\* the cache entry of a finding, lines 153-158
ThemeResult(practice, analysis) ==
    [practice_id |-> practice.id, themes |-> analysis.themes,
     keywords |-> analysis.keywords, duration |-> "duration"]

\* one call of analyze_practice, lines 88-172
AnalyzePracticeOn(practice, analysis, all_themes, all_keywords) ==
    LET cache_key == ThemeCacheKey(practice)
        found == [NoThemeCall EXCEPT !.called = TRUE, !.practice = practice.id]
        asked == [found EXCEPT
                     !.asked = TRUE,
                     !.top_themes = most_common(th_frequency, TopThemes),
                     !.prompt = _construct_theme_prompt(th_frequency, practice,
                                                        all_themes, all_keywords),
                     !.answer = analysis]
    IN
    /\ IF DictHas(th_cache, cache_key)
       THEN /\ th_result' = Returned("cached", <<DictGet(th_cache, cache_key)>>)
            /\ th_last' = [found EXCEPT !.hit = TRUE]
            /\ UNCHANGED <<th_known, th_frequency, th_cache, th_rows, th_inserted,
                           th_evicted, th_returned>>
       ELSE IF analysis.kind # "json" \/ "themes" \notin analysis.has
       THEN \* the API call, json.loads or analysis['themes'] raises
            /\ th_result' = Returned("raised", <<>>)
            /\ th_last' = asked
            /\ UNCHANGED <<th_known, th_frequency, th_cache, th_rows, th_inserted,
                           th_evicted, th_returned>>
       ELSE IF "keywords" \notin analysis.has
       THEN \* analysis['keywords'] raises, the themes being counted already
            /\ th_known' = KnownUpdate(th_known, analysis.themes)
            /\ th_frequency' = CounterUpdate(th_frequency, analysis.themes)
            /\ th_returned' = th_returned \o analysis.themes
            /\ th_result' = Returned("raised", <<>>)
            /\ th_last' = asked
            /\ UNCHANGED <<th_cache, th_rows, th_inserted, th_evicted>>
       ELSE LET saved == Analysed(practice, analysis)
                inserted == DictSet(th_cache, cache_key, ThemeResult(practice, analysis))
            IN /\ th_known' = KnownUpdate(th_known, analysis.themes)
               /\ th_frequency' = CounterUpdate(th_frequency, analysis.themes)
               /\ th_returned' = th_returned \o analysis.themes
               /\ th_rows' = DictSet(th_rows, practice.id, saved)
               /\ th_cache' = EvictIfOver(inserted)
               /\ th_inserted' = Append(th_inserted, cache_key)
               /\ th_evicted' = th_evicted \o LostKeys(inserted, EvictIfOver(inserted))
               /\ th_result' = Returned("practice", <<saved>>)
               /\ th_last' = asked
    /\ UNCHANGED th_tasks
    /\ UNCHANGED <<chunkerVars, pipelineVars, poolVars, pageVars, searchVars, extractorVars, embedVars>>

\* the finding with an id as a caller holds it: as saved by the last analysis,
\* or as process_chunk created it
PracticeOf(id) == IF DictHas(th_rows, id) THEN DictGet(th_rows, id) ELSE FreshPractice(id)

\* analyze_practice on a finding never analysed before
AnalyzeFresh ==
    /\ Len(th_inserted) < MaxFill
    /\ AnalyzePracticeOn(FreshPractice(Len(th_rows) + 1), ThemeAnalysis, {}, {})

\* analyze_practice again on the finding analysed last
AnalyzeAgain ==
    /\ Len(th_rows) > 0
    /\ AnalyzePracticeOn(PracticeOf(Len(th_rows)), ThemeAnalysis, {}, {})

\* analyze_practice again on the finding analysed first
AnalyzeFirstAgain ==
    /\ Len(th_rows) > 0
    /\ Len(th_inserted) < MaxFill
    /\ AnalyzePracticeOn(PracticeOf(1), ThemeAnalysis, {}, {})

NextThemeFill == AnalyzeFresh \/ AnalyzeAgain \/ AnalyzeFirstAgain

SpecThemeFill == Init /\ [][NextThemeFill]_vars

\* analyze_practice on one of a few findings, with any answer of the model
AnalyzeAny ==
    /\ Len(th_returned) < MaxReturned
    /\ \E id \in 1..MaxFindings, analysis \in ThemeAnalyses,
          all_themes \in AllThemes, all_keywords \in AllKeywords :
          AnalyzePracticeOn(PracticeOf(id), analysis, all_themes, all_keywords)

SpecThemes == Init /\ [][AnalyzeAny]_vars

(***************************************************************************)
(* Calls of analyze_practice running concurrently on one ThemeAnalyzer.    *)
(* A call gives way to the others where it waits: for the model (line 119) *)
(* and for the save of the finding (line 150).                             *)
(***************************************************************************)
\* a call not yet begun
Task(practice, analysis) ==
    [practice |-> practice, analysis |-> analysis, pc |-> "begin", asked |-> FALSE,
     result |-> NoResult]

\* the findings of n concurrent calls: n different ones, or n times the same
TaskFindings(n, same) == [i \in 1..n |-> FreshPractice(IF same THEN 1 ELSE i)]

\* the calls are started together
StartTasks ==
    /\ th_tasks = <<>>
    /\ \E n \in 2..MaxTasks, same \in BOOLEAN :
          \E answers \in [1..n -> ThemeAnalyses] :
             th_tasks' = [i \in 1..n |-> Task(TaskFindings(n, same)[i], answers[i])]
    /\ UNCHANGED <<th_known, th_frequency, th_cache, th_rows, th_result, th_inserted,
                   th_evicted, th_last, th_returned>>
    /\ UNCHANGED <<chunkerVars, pipelineVars, poolVars, pageVars, searchVars, extractorVars, embedVars>>

\* lines 88-119: the cache is looked up; a hit returns, a miss asks the model
TaskBegins(i) ==
    LET task == th_tasks[i]
        cache_key == ThemeCacheKey(task.practice)
    IN /\ task.pc = "begin"
       /\ th_tasks' = [th_tasks EXCEPT ![i] =
              IF DictHas(th_cache, cache_key)
              THEN [task EXCEPT !.pc = "done",
                                !.result = Returned("cached",
                                                    <<DictGet(th_cache, cache_key)>>)]
              ELSE [task EXCEPT !.pc = "asking", !.asked = TRUE]]
       /\ UNCHANGED <<th_known, th_frequency, th_cache, th_rows, th_result, th_inserted,
                      th_evicted, th_last, th_returned>>
       /\ UNCHANGED <<chunkerVars, pipelineVars, poolVars, pageVars, searchVars, extractorVars, embedVars>>

\* lines 131-149: the answer is parsed, the vocabulary updated, the finding set
TaskAnswered(i) ==
    LET task == th_tasks[i]
        analysis == task.analysis
    IN /\ task.pc = "asking"
       /\ IF analysis.kind # "json" \/ "themes" \notin analysis.has
          THEN /\ th_tasks' = [th_tasks EXCEPT ![i] =
                     [task EXCEPT !.pc = "raised", !.result = Returned("raised", <<>>)]]
               /\ UNCHANGED <<th_known, th_frequency, th_returned>>
          ELSE /\ th_known' = KnownUpdate(th_known, analysis.themes)
               /\ th_frequency' = CounterUpdate(th_frequency, analysis.themes)
               /\ th_returned' = th_returned \o analysis.themes
               /\ th_tasks' = [th_tasks EXCEPT ![i] =
                     IF "keywords" \notin analysis.has
                     THEN [task EXCEPT !.pc = "raised",
                                       !.result = Returned("raised", <<>>)]
                     ELSE [task EXCEPT !.pc = "saving"]]
       /\ UNCHANGED <<th_cache, th_rows, th_result, th_inserted, th_evicted, th_last>>
       /\ UNCHANGED <<chunkerVars, pipelineVars, poolVars, pageVars, searchVars, extractorVars, embedVars>>

\* lines 150-172: the finding is saved, the result cached, the cache trimmed
TaskSaved(i) ==
    LET task == th_tasks[i]
        cache_key == ThemeCacheKey(task.practice)
        saved == Analysed(task.practice, task.analysis)
        inserted == DictSet(th_cache, cache_key, ThemeResult(task.practice, task.analysis))
    IN /\ task.pc = "saving"
       /\ th_rows' = DictSet(th_rows, task.practice.id, saved)
       /\ th_cache' = EvictIfOver(inserted)
       /\ th_inserted' = Append(th_inserted, cache_key)
       /\ th_evicted' = th_evicted \o LostKeys(inserted, EvictIfOver(inserted))
       /\ th_tasks' = [th_tasks EXCEPT ![i] =
              [task EXCEPT !.pc = "done", !.result = Returned("practice", <<saved>>)]]
       /\ UNCHANGED <<th_known, th_frequency, th_result, th_last, th_returned>>
       /\ UNCHANGED <<chunkerVars, pipelineVars, poolVars, pageVars, searchVars, extractorVars, embedVars>>

NextTasks ==
    \/ StartTasks
    \/ \E i \in 1..Len(th_tasks) : TaskBegins(i) \/ TaskAnswered(i) \/ TaskSaved(i)

SpecTasks == Init /\ [][NextTasks]_vars

(***************************************************************************)
(* Behaviour of VectorStore.generate_embedding called directly             *)
(***************************************************************************)
\* generate_embedding, lines 36-93; the embedder answers or raises
generate_embedding(text, outcome) ==
    LET cache_key == EmbeddingCacheKey(text)
        had == DictHas(vs_cache, cache_key)
        found == [called |-> TRUE, text |-> text, at |-> vs_now, had_entry |-> had,
                  prev_expires |-> IF had THEN DictGet(vs_cache, cache_key).expires ELSE 0,
                  embedded |-> FALSE, raised |-> FALSE, stored |-> FALSE, swept |-> FALSE,
                  size_before |-> 0, unexpired_before |-> <<>>, expiries_before |-> <<>>]
    IN
    /\ IF had /\ IsFresh(DictGet(vs_cache, cache_key), vs_now)
       THEN /\ vs_result' = Returned("vector", <<DictGet(vs_cache, cache_key).embedding>>)
            /\ vs_last' = found
            /\ UNCHANGED <<vs_cache, vs_calls>>
       ELSE IF outcome = "raises"
       THEN /\ vs_result' = Returned("raised", <<>>)
            /\ vs_last' = [found EXCEPT !.embedded = TRUE, !.raised = TRUE]
            /\ vs_calls' = vs_calls + 1
            /\ UNCHANGED vs_cache
       ELSE LET embedding == Embed(_clean_text(text))
                inserted == DictSet(vs_cache, cache_key,
                                    [embedding |-> embedding, expires |-> vs_now + CacheTtl])
                live == Unexpired(inserted, vs_now)
            IN /\ vs_cache' = MaintainSize(inserted, vs_now)
               /\ vs_result' = Returned("vector", <<embedding>>)
               /\ vs_last' = [found EXCEPT
                                 !.embedded = TRUE, !.stored = TRUE,
                                 !.swept = Len(inserted) > EmbeddingCacheLimit,
                                 !.size_before = Len(inserted),
                                 !.unexpired_before = Keys(live),
                                 !.expiries_before = Expiries(live)]
               /\ vs_calls' = vs_calls + 1
    /\ UNCHANGED vs_now

\* one call of generate_embedding by a caller of the store
GenerateEmbeddingOn(text, outcome) ==
    /\ generate_embedding(text, outcome)
    /\ UNCHANGED <<chunkerVars, pipelineVars, poolVars, pageVars, searchVars, extractorVars, themeVars>>

\* generate_embedding on any of a few texts
GenerateEmbedding ==
    /\ vs_calls < MaxEmbedCalls
    /\ \E text \in EmbedTexts, outcome \in {"ok", "raises"} : GenerateEmbeddingOn(text, outcome)

\* time passes between two calls
ClockAdvances ==
    /\ vs_now < MaxClock
    /\ vs_now' = vs_now + ClockStep
    /\ UNCHANGED <<vs_cache, vs_result, vs_last, vs_calls>>
    /\ UNCHANGED <<chunkerVars, pipelineVars, poolVars, pageVars, searchVars, extractorVars, themeVars>>

NextEmbed == GenerateEmbedding \/ ClockAdvances

SpecEmbed == Init /\ [][NextEmbed]_vars

\* generate_embedding on text after text, all different
EmbedFresh ==
    /\ vs_calls < MaxFill
    /\ GenerateEmbeddingOn(FreshText(vs_calls + 1), "ok")

\* the TTL elapses once while the cache is filled
TtlElapses ==
    /\ vs_now = 0
    /\ Len(vs_cache) \in ElapseAt
    /\ vs_now' = vs_now + CacheTtl
    /\ UNCHANGED <<vs_cache, vs_result, vs_last, vs_calls>>
    /\ UNCHANGED <<chunkerVars, pipelineVars, poolVars, pageVars, searchVars, extractorVars, themeVars>>

NextEmbedFill == EmbedFresh \/ TtlElapses

SpecEmbedFill == Init /\ [][NextEmbedFill]_vars

\* time passes after the first and after the second text were embedded
RefillClockAdvances ==
    /\ vs_now < CacheTtl
    /\ Len(vs_cache) = vs_now \div ClockStep + 1
    /\ vs_now' = vs_now + ClockStep
    /\ UNCHANGED <<vs_cache, vs_result, vs_last, vs_calls>>
    /\ UNCHANGED <<chunkerVars, pipelineVars, poolVars, pageVars, searchVars, extractorVars, themeVars>>

\* the first text is embedded again once its entry has expired, before any
\* other text is
EmbedFirstAgain ==
    /\ vs_calls < MaxFill
    /\ Len(vs_cache) = vs_now \div ClockStep
    /\ DictHas(vs_cache, EmbeddingCacheKey(FreshText(1)))
    /\ ~IsFresh(DictGet(vs_cache, EmbeddingCacheKey(FreshText(1))), vs_now)
    /\ GenerateEmbeddingOn(FreshText(1), "ok")

NextEmbedRefill == EmbedFresh \/ RefillClockAdvances \/ EmbedFirstAgain

SpecEmbedRefill == Init /\ [][NextEmbedRefill]_vars

(***************************************************************************)
(* Behaviour of VectorStore.store_practice and VectorStore.find_similar    *)
(***************************************************************************)
\* store_practice on a finding process_chunk created, lines 116-149: the text
\* is embedded and the row saved; a failure of the embedder leaves the row
\* without embedding
StorePracticeOn(text, outcome) ==
    LET practice == StoredPractice(Len(vs_rows) + 1, text) IN
    /\ generate_embedding(text, outcome)
    /\ vs_rows' = Append(vs_rows,
                         IF vs_result'.kind = "vector"
                         THEN [practice EXCEPT !.has_embedding = TRUE,
                                               !.embedding = vs_result'.items[1]]
                         ELSE practice)
    /\ UNCHANGED <<vs_found, vd_docs, vd_found>>
    /\ UNCHANGED <<chunkerVars, pipelineVars, poolVars, pageVars, extractorVars, themeVars>>

StorePractice ==
    /\ Len(vs_rows) < MaxStored
    /\ vs_calls < MaxSearchCalls
    /\ \E text \in SearchTexts, outcome \in {"ok", "raises"} : StorePracticeOn(text, outcome)

\* find_similar, lines 151-197: the query is embedded, the rows within the
\* threshold are returned by distance, at most limit of them
FindSimilarOn(query, limit, threshold, outcome) ==
    /\ generate_embedding(query, outcome)
    /\ IF vs_result'.kind = "vector"
       THEN \E results \in FindSimilarResults(vs_rows, vs_result'.items[1], limit,
                                              threshold) :
               vs_found' = [called |-> TRUE, raised |-> FALSE,
                            query_embedding |-> vs_result'.items[1], limit |-> limit,
                            threshold |-> threshold, rows |-> vs_rows,
                            results |-> results]
       ELSE vs_found' = [NoSearch EXCEPT !.called = TRUE, !.raised = TRUE,
                                         !.limit = limit, !.threshold = threshold,
                                         !.rows = vs_rows]
    /\ UNCHANGED <<vs_rows, vd_docs, vd_found>>
    /\ UNCHANGED <<chunkerVars, pipelineVars, poolVars, pageVars, extractorVars, themeVars>>

\* one search is made in a run, at any point between the stores
FindSimilar ==
    /\ vs_calls < MaxSearchCalls
    /\ ~vs_found.called
    /\ \E query \in SearchQueries, limit \in 0..MaxLimit, threshold \in Thresholds,
          outcome \in {"ok", "raises"} : FindSimilarOn(query, limit, threshold, outcome)

NextSearch == StorePractice \/ FindSimilar

SpecSearch == Init /\ [][NextSearch]_vars

(***************************************************************************)
(* Behaviour of VectorService.create_document and similarity_search        *)
(***************************************************************************)
\* create_document, lines 56-70: the content is embedded and the row created
\* (created_at is the time of creation); a failure of the embedder creates nothing
CreateDocumentOn(input, outcome) ==
    /\ vd_docs' = IF outcome = "raises" THEN vd_docs
                  ELSE Append(vd_docs,
                              [id |-> Len(vd_docs) + 1, contents |-> input.content,
                               metadata |-> input.metadata,
                               embedding |-> ServiceEmbed(input.content),
                               created_at |-> Len(vd_docs) + 1])
    /\ UNCHANGED <<vs_rows, vs_found, vd_found>>
    /\ UNCHANGED <<chunkerVars, pipelineVars, poolVars, pageVars, extractorVars, themeVars, embedVars>>

CreateDocument ==
    /\ Len(vd_docs) < MaxDocs
    /\ \E input \in DocumentInputs, outcome \in {"ok", "raises"} :
          CreateDocumentOn(input, outcome)

\* similarity_search, lines 137-161: the query is embedded and _perform_search run
SimilaritySearchOn(query, limit, metadata_filters, time_range, threshold, outcome) ==
    LET asked == [NoServiceSearch EXCEPT
                     !.called = TRUE, !.limit = limit,
                     !.metadata_filters = metadata_filters, !.time_range = time_range,
                     !.threshold = threshold, !.docs = vd_docs]
    IN
    /\ vd_found' = IF outcome = "raises" THEN [asked EXCEPT !.raised = TRUE]
                   ELSE [asked EXCEPT
                            !.query_embedding = ServiceEmbed(query),
                            !.results = _perform_search(vd_docs, ServiceEmbed(query), limit,
                                                        metadata_filters, time_range,
                                                        threshold)]
    /\ UNCHANGED <<vs_rows, vs_found, vd_docs>>
    /\ UNCHANGED <<chunkerVars, pipelineVars, poolVars, pageVars, extractorVars, themeVars, embedVars>>

\* one search is made in a run, at any point between the creations
SimilaritySearch ==
    /\ ~vd_found.called
    /\ \/ \E limit \in 0..MaxLimit, metadata_filters \in MetadataFilters,
             time_range \in TimeRanges :
             SimilaritySearchOn("shipping", limit, metadata_filters, time_range,
                                DefaultServiceThreshold, "ok")
       \/ SimilaritySearchOn("shipping", MaxLimit, NoFilter, NoRange,
                             DefaultServiceThreshold, "raises")

NextService == CreateDocument \/ SimilaritySearch

SpecService == Init /\ [][NextService]_vars

(***************************************************************************)
(* Behaviour of DocumentPageExtractor called on a file                     *)
(***************************************************************************)
\* a file is at hand, of up to MaxParagraphs pages or paragraphs
InitExtract ==
    /\ IdlePipeline
    /\ IdleChunker
    /\ IdleServices
    /\ px_last \in {[NoExtraction EXCEPT !.file = file] : file \in Files(MaxParagraphs)}
    /\ dr_files = {}
    /\ dr_runs = <<>>

\* an extractor is called on the file and returns its pages
Extracted(file_type, pages) ==
    /\ ~px_last.called
    /\ px_last' = [px_last EXCEPT !.called = TRUE, !.file_type = file_type, !.pages = pages]
    /\ UNCHANGED <<dr_files, dr_runs>>
    /\ UNCHANGED <<chunkerVars, pipelineVars, poolVars, extractorVars, themeVars, embedVars,
                   searchVars>>

ExtractPdfPages == Extracted("pdf", extract_pdf_pages(px_last.file))

ExtractDocxPages == Extracted("docx", extract_docx_pages(px_last.file))

ExtractOdtPages == Extracted("odt", extract_odt_pages(px_last.file))

NextExtract == ExtractPdfPages \/ ExtractDocxPages \/ ExtractOdtPages

SpecExtract == InitExtract /\ [][NextExtract]_vars

(***************************************************************************)
(* Behaviour of process_document calls running together on one data_dir    *)
(***************************************************************************)
RunStep(r, run, files) ==
    /\ dr_runs' = [dr_runs EXCEPT ![r] = run]
    /\ dr_files' = files
    /\ UNCHANGED px_last
    /\ UNCHANGED <<chunkerVars, pipelineVars, poolVars, extractorVars, themeVars, embedVars,
                   searchVars>>

\* the documents are handed to process_document at the same time
StartRuns ==
    /\ dr_runs = <<>>
    /\ \E filenames \in [1..MaxRuns -> RunFileNames], pages \in [1..MaxRuns -> 1..MaxRunPages] :
          dr_runs' = [r \in 1..MaxRuns |-> Run(filenames[r], pages[r])]
    /\ UNCHANGED <<px_last, dr_files>>
    /\ UNCHANGED <<chunkerVars, pipelineVars, poolVars, extractorVars, themeVars, embedVars,
                   searchVars>>

\* _download_file, lines 150-170: the response is written to downloaded{ext}
RunDownloads(r) ==
    LET run == dr_runs[r]
        file_path == DownloadPath(run.filename)
    IN /\ run.pc = "download"
       /\ \E outcome \in {"ok", "fetch_error"} :
             IF outcome = "ok"
             THEN RunStep(r, [run EXCEPT !.pc = "extract", !.downloaded_file = file_path,
                                         !.foreign = @ \cup Touches(dr_files, file_path, r,
                                                                    "overwrote")],
                          WriteFile(dr_files, file_path, r))
             ELSE RunStep(r, [run EXCEPT !.pc = "done", !.raised = TRUE], dr_files)

\* _process_document_pages, line 285: the extractor opens file_path
RunExtracts(r) ==
    LET run == dr_runs[r]
    IN /\ run.pc = "extract"
       /\ IF FileExists(dr_files, run.downloaded_file)
          THEN RunStep(r, [run EXCEPT !.pc = "save_page", !.page_num = 1,
                                      !.foreign = @ \cup Touches(dr_files, run.downloaded_file,
                                                                 r, "read")],
                       dr_files)
          ELSE RunStep(r, [run EXCEPT !.pc = "finally", !.raised = TRUE,
                                      !.foreign = @ \cup {"missing"}],
                       dr_files)

\* _process_page_batch, lines 199-205: the page is saved as temp_page_{n}.pdf
RunSavesPage(r) ==
    LET run == dr_runs[r]
        temp_path == TempPath(run.page_num)
    IN /\ run.pc = "save_page"
       /\ RunStep(r, [run EXCEPT !.pc = "parse",
                                 !.foreign = @ \cup Touches(dr_files, temp_path, r, "overwrote")],
                  WriteFile(dr_files, temp_path, r))

\* _process_page_batch, line 208: parser.load_data(str(temp_path)) reads the
\* file; it raises or not when the file is not there
RunParses(r) ==
    LET run == dr_runs[r]
        temp_path == TempPath(run.page_num)
    IN /\ run.pc = "parse"
       /\ IF FileExists(dr_files, temp_path)
          THEN RunStep(r, [run EXCEPT !.pc = "unlink_page",
                                      !.foreign = @ \cup Touches(dr_files, temp_path, r, "read")],
                       dr_files)
          ELSE \E raised \in BOOLEAN :
                  RunStep(r, [run EXCEPT !.pc = "unlink_page", !.raised = raised,
                                         !.foreign = @ \cup {"missing"}],
                          dr_files)

\* _process_page_batch, lines 215-218: finally, temp_path is removed if it
\* exists; the loop goes on with the next page unless load_data raised
RunUnlinksPage(r) ==
    LET run == dr_runs[r]
        temp_path == TempPath(run.page_num)
        after == [run EXCEPT !.foreign = @ \cup Touches(dr_files, temp_path, r, "deleted")]
    IN /\ run.pc = "unlink_page"
       /\ RunStep(r,
                  IF run.raised \/ run.page_num = run.pages
                  THEN [after EXCEPT !.pc = "finally"]
                  ELSE [after EXCEPT !.pc = "save_page", !.page_num = run.page_num + 1],
                  Unlink(dr_files, temp_path))

\* process_document, lines 343-349: finally, the downloaded file is removed
\* if it exists
RunCleansUp(r) ==
    LET run == dr_runs[r]
    IN /\ run.pc = "finally"
       /\ RunStep(r, [run EXCEPT !.pc = "done",
                                 !.foreign = @ \cup Touches(dr_files, run.downloaded_file, r,
                                                            "deleted")],
                  Unlink(dr_files, run.downloaded_file))

NextRuns ==
    \/ StartRuns
    \/ \E r \in 1..Len(dr_runs) :
          \/ RunDownloads(r)
          \/ RunExtracts(r)
          \/ RunSavesPage(r)
          \/ RunParses(r)
          \/ RunUnlinksPage(r)
          \/ RunCleansUp(r)

SpecRuns == Init /\ [][NextRuns]_vars

(***************************************************************************)
(* Behaviour of TextChunker.split_text                                     *)
(***************************************************************************)
ChunkerConfigs ==
    {TextChunker(cs, ov) : cs \in 0..MaxChunkSize, ov \in 0..MaxOverlap}
        \cup {TextChunker(DefaultChunkSize, DefaultOverlap)}

ChunkerInputs(self) ==
    IF self.chunk_size = DefaultChunkSize THEN {LongText} ELSE Texts

InitChunker ==
    /\ IdlePipeline
    /\ IdleComponents
    /\ chunker \in ChunkerConfigs
    /\ tc_pc = "ready"
    /\ tc_text = <<>>
    /\ tc_words = <<>>
    /\ current_position = 0
    /\ tc_chunks = <<>>
    /\ tc_first = NoCall

\* split_text entry: words = text.split(); chunks = []; current_position = 0
SplitTextEntry(text) ==
    /\ tc_pc = "ready"
    /\ tc_text' = text
    /\ tc_words' = split(text)
    /\ current_position' = 0
    /\ tc_chunks' = <<>>
    /\ tc_pc' = "loop"
    /\ UNCHANGED <<chunker, tc_first>>
    /\ UNCHANGED <<pipelineVars, componentVars>>

SplitTextCall == \E text \in ChunkerInputs(chunker) : SplitTextEntry(text)

\* the same instance is called again and again on short texts
SplitTextCallAgain == \E text \in RepeatTexts : SplitTextEntry(text)

\* as SplitTextIter, the instance's overlap being fitted to the text in place
SplitTextIter_AdaptsOverlap ==
    /\ tc_pc = "loop"
    /\ IF current_position < Len(tc_words)
       THEN LET r == LoopBody(chunker, tc_words, current_position, tc_chunks)
            IN /\ current_position' = r.current_position
               /\ tc_chunks' = r.chunks
               /\ tc_pc' = IF r.brk THEN "done" ELSE "loop"
       ELSE /\ tc_pc' = "done"
            /\ UNCHANGED <<current_position, tc_chunks>>
    /\ chunker' = [chunker EXCEPT !.overlap = Min(@, Len(tc_words) \div 2)]
    /\ UNCHANGED <<tc_text, tc_words, tc_first>>
    /\ UNCHANGED <<pipelineVars, componentVars>>

\* one evaluation of the while condition and, when it holds, of the loop body
SplitTextIter ==
    /\ tc_pc = "loop"
    /\ IF current_position < Len(tc_words)
       THEN LET r == LoopBody(chunker, tc_words, current_position, tc_chunks)
            IN /\ current_position' = r.current_position
               /\ tc_chunks' = r.chunks
               /\ tc_pc' = IF r.brk THEN "done" ELSE "loop"
       ELSE /\ tc_pc' = "done"
            /\ UNCHANGED <<current_position, tc_chunks>>
    /\ UNCHANGED <<chunker, tc_text, tc_words, tc_first>>
    /\ UNCHANGED <<pipelineVars, componentVars>>

\* return chunks: the locals of the call are dropped
SplitTextReturn ==
    /\ tc_pc = "done"
    /\ tc_pc' = "ready"
    /\ tc_text' = <<>>
    /\ tc_words' = <<>>
    /\ current_position' = 0
    /\ tc_chunks' = <<>>
    /\ UNCHANGED <<chunker, tc_first>>
    /\ UNCHANGED <<pipelineVars, componentVars>>

\* return chunks, the caller keeping what the first call returned
SplitTextReturnKept ==
    /\ tc_pc = "done"
    /\ tc_first' = IF tc_first.returned THEN tc_first
                   ELSE [returned |-> TRUE, text |-> tc_text, chunks |-> tc_chunks]
    /\ tc_pc' = "ready"
    /\ tc_text' = <<>>
    /\ tc_words' = <<>>
    /\ current_position' = 0
    /\ tc_chunks' = <<>>
    /\ UNCHANGED chunker
    /\ UNCHANGED <<pipelineVars, componentVars>>

NextChunker == SplitTextCall \/ SplitTextIter \/ SplitTextReturn

SpecChunker == InitChunker /\ [][NextChunker]_vars

\* the while loop is executed to its end once split_text is called
FairChunker == SpecChunker /\ WF_vars(SplitTextIter)

\* one instance called repeatedly, the texts in any order
NextRepeat == SplitTextCallAgain \/ SplitTextIter \/ SplitTextReturnKept

SpecRepeat == InitChunker /\ [][NextRepeat]_vars


(***************************************************************************)
(* Properties of the analysis request                                      *)
(***************************************************************************)
Terminal == {"COMPLETED", "FAILED"}

\* process_document has been entered and has exited (returned or raised)
ProcessDocumentExited ==
    document # NoDocument /\ pc \in {"extract", "analyze", "done"}

\* the request was answered for a document that had been created
RequestEnded == pc = "done" /\ document # NoDocument

\* the terminal status and processing_duration of the document were saved
FinalSaved == document # NoDocument /\ document.processing_duration # NONE

StoredStatus ==
    {d.processed_status : d \in {x \in db.documents : x.id = document.id}}

\* C1: the writes to processed_status of a run are PENDING, then PROCESSING,
\* then one terminal value written once; nothing is written after it.
C1_StatusWrittenOnce ==
    /\ Len(status_writes) <= 3
    /\ Len(status_writes) >= 1 => status_writes[1] = "PENDING"
    /\ Len(status_writes) >= 2 => status_writes[2] = "PROCESSING"
    /\ Len(status_writes) >= 3 => status_writes[3] \in Terminal
    /\ RequestEnded => Len(status_writes) = 3

\* C2: at the end of the request the status is FAILED exactly when an
\* exception was raised in a stage from file retrieval and page extraction
\* onward; a FAILED document has an error message and FAILED is the status
\* stored for it.
C2_FailedIffException ==
    RequestEnded =>
        /\ document.processed_status = "FAILED" <=>
              failed_stage \in {"download", "page_extraction", "page_batch",
                                "extraction", "classification", "embedding"}
        /\ document.processed_status = "FAILED" =>
              /\ document.error_message # NONE
              /\ StoredStatus = {"FAILED"}

\* C3: once the terminal status and the duration of the document are saved,
\* no chunk and no finding of the document is created or modified.
C3_NoWorkAfterFinalSave ==
    [][FinalSaved =>
          /\ db'.chunks \subseteq db.chunks
          /\ db'.practices \subseteq db.practices]_vars

\* C4: a failure of the extraction or classification of one chunk does not
\* abort the request: the chunk is skipped and the document ends COMPLETED.
C4_ChunkFailureSkipped ==
    (RequestEnded /\ failed_stage \in {"extraction", "classification"}) =>
        /\ response.status = 200
        /\ document.processed_status = "COMPLETED"

\* C5: a supported document whose retrieval and page extraction succeed and
\* whose extraction responses are well formed ends without exception and
\* COMPLETED, with or without findings.
C5_EndToEndCompleted ==
    (/\ RequestEnded
     /\ request.file_type \in SupportedMimeTypes
     /\ document.mime_type \in SupportedMimeTypes
     /\ ~env_fault) =>
        /\ response.status = 200
        /\ document.processed_status = "COMPLETED"

\* C6: a request whose file_type is not a supported MIME type fails with the
\* unsupported-format error and the document ends FAILED with an error message.
C6_UnsupportedTypeFails ==
    (/\ RequestEnded
     /\ request.file_type \notin SupportedMimeTypes
     /\ ~env_fault) =>
        /\ response.message = "Unsupported file type"
        /\ document.processed_status = "FAILED"
        /\ document.error_message # NONE

\* C7: once process_document has exited, by return or by exception, no
\* downloaded file of the run remains on disk.
C7_NoDownloadLeft ==
    ProcessDocumentExited => disk = {}

\* C8: a request lacking file_url, file_id or file_type is answered with the
\* missing-required-fields error and no record is created.
C8_MissingFieldRejected ==
    (/\ pc = "done"
     /\ \/ request.file_url = NONE
        \/ request.file_id = NONE
        \/ request.file_type = NONE) =>
        /\ response = [status |-> 400, message |-> "Missing required fields"]
        /\ document = NoDocument
        /\ db = EmptyDb

(***************************************************************************)
(* Properties of TextChunker                                               *)
(***************************************************************************)

\* C9: when split_text returns for a configuration with chunk_size >= 1, the
\* start offsets of the chunks strictly increase, every word index of the
\* text lies in some chunk, and (when the text has a word) the end offset of
\* the last chunk is the number of words: the tail is not dropped.
C9_NoTailDropped ==
    (tc_pc = "done" /\ chunker.chunk_size >= 1) =>
        /\ \A i \in 1..(Len(tc_chunks) - 1) :
              tc_chunks[i].start_pos < tc_chunks[i + 1].start_pos
        /\ Len(tc_words) > 0 =>
              /\ Len(tc_chunks) >= 1
              /\ tc_chunks[Len(tc_chunks)].end_pos = Len(tc_words)
        /\ \A w \in 0..(Len(tc_words) - 1) :
              \E i \in 1..Len(tc_chunks) :
                  tc_chunks[i].start_pos <= w /\ w < tc_chunks[i].end_pos

\* the 2500-word text split with chunk_size 1000 and overlap 200
C9_Witness ==
    /\ tc_pc = "done"
    /\ chunker = [chunk_size |-> DefaultChunkSize, overlap |-> DefaultOverlap]
    /\ Len(tc_words) = LongTextWords
    /\ Len(tc_chunks) = 3
    /\ tc_chunks[3].end_pos = LongTextWords

\* C10: split_text terminates for chunk_size >= 0 and overlap >= 0: from one
\* iteration of the loop to the next the cursor strictly increases, every
\* call reaches its return, and a text without words yields zero chunks.
C10_Terminates ==
    /\ [][(tc_pc = "loop" /\ tc_pc' = "loop") => current_position' > current_position]_vars
    /\ [](tc_pc = "done" /\ ~NotBlank(tc_text) => tc_chunks = <<>>)
    /\ (tc_pc = "loop") ~> (tc_pc = "done")

\* chunk_size 0: the naive next start equals the previous start and the cursor
\* is forced one word forward until the text is exhausted
C10_Witness ==
    /\ tc_pc = "done"
    /\ chunker.chunk_size = 0
    /\ Len(tc_words) >= 2
    /\ Len(tc_chunks) = Len(tc_words)
    /\ current_position = Len(tc_words)

\* C11: split_text is a function of (text, chunk_size, overlap): whenever a
\* call on an instance ends, on the text of the first call that returned on
\* that instance, whatever calls were made in between, the chunk list is the
\* one the first call returned, and the parameters of the instance are the
\* ones it was constructed with.
C11_SameTextSameChunks ==
    /\ chunker \in ChunkerConfigs
    /\ (tc_pc = "done" /\ tc_first.returned /\ tc_first.text = tc_text)
          => tc_chunks = tc_first.chunks

\* a text of several chunks is split a second time on the same instance
C11_Witness ==
    /\ tc_pc = "done"
    /\ tc_first.returned
    /\ tc_first.text = tc_text
    /\ Len(tc_chunks) >= 2
    /\ tc_chunks = tc_first.chunks

\* the stored chunks of one page of one document
PageRows(document_id, page_number) ==
    {c \in db.chunks : c.document = document_id /\ c.page_number = page_number}

\* C12: in every reachable state, for every document and page number, the
\* positions of the stored chunks of that page are exactly 0..k-1, k being the
\* number of these chunks: no gap and no duplicate.
C12_PositionsContiguous ==
    \A c \in db.chunks :
        LET rows == PageRows(c.document, c.page_number)
        IN /\ {r.position : r \in rows} = 0..(Cardinality(rows) - 1)
           /\ \A r1, r2 \in rows : r1.position = r2.position => r1 = r2

\* a page of two chunks is stored next to pages of one chunk
C12_Witness ==
    /\ \E c \in db.chunks : Cardinality(PageRows(c.document, c.page_number)) >= 2
    /\ \E c \in db.chunks : c.page_number >= 2 /\ c.position = 0
    /\ Cardinality(db.chunks) >= 4

\* C13: the chunk list assembled by process_document is in ascending
\* (page_number, position) order, in whatever order the page batches finish
\* in the worker pool.
C13_ChunksAscending ==
    \A i, j \in 1..Len(chunks) :
        i < j => \/ chunks[i].page_number < chunks[j].page_number
                 \/ /\ chunks[i].page_number = chunks[j].page_number
                    /\ chunks[i].position < chunks[j].position

\* a later batch finished before an earlier one and all results were taken
C13_Witness ==
    /\ pc = "extract"
    /\ Len(page_batches) >= 3
    /\ \E i, j \in 1..Len(finish_order) : i < j /\ finish_order[i] > finish_order[j]
    /\ Len(chunks) >= MaxBatchPages

\* C14: _calculate_confidence_score returns a value in [0.0, 1.0] for every
\* practice_data and word_count, so every finding persisted by process_chunk
\* has a confidence_score in [0, 1].
C14_ScoreInUnitInterval ==
    \A i \in 1..Len(ex_rows) :
        /\ 0 <= ex_rows[i].confidence_score
        /\ ex_rows[i].confidence_score <= ScoreOne

\* a finding whose factors multiply to more than 1 (long evidence, a listed
\* category, 50..500 words, no field missing) is persisted with score 1
C14_Witness ==
    /\ Len(ex_rows) = 1
    /\ ex_rows[1].confidence_score = ScoreOne
    /\ Len(ex_rows[1].keywords) > 10
    /\ ContainsCategory(Lower(ex_rows[1].themes[1]))
    /\ ex_rows[1].impact # ""

\* C16: the extraction cache of BestPracticeExtractor is bounded: it never
\* holds more than the capacity of 1000 entries, the oldest entry being
\* evicted when an insertion would exceed it.
C16_ExtractionCacheBounded == Len(ex_cache) <= CacheLimit

\* C20: the extraction cache is only an optimization: a call of process_chunk
\* served from the cache returns what the call that computed the entry
\* returned.
C20_HitReturnsComputed ==
    ex_last.hit => ex_result = DictGet(ex_computed, _get_cache_key(ex_last.text))

\* C15: after 1001 distinct keys were inserted into the theme-result cache
\* (capacity 1000, no TTL) it holds exactly 1000 entries and the key inserted
\* first is the one evicted; after every call of analyze_practice the cache
\* holds at most 1000 entries and the evictions follow the insertion order.
C15_ThemeCacheOldestFirst ==
    /\ Len(th_cache) <= CacheLimit
    /\ Len(th_evicted) <= Len(th_inserted)
    /\ th_evicted = SubSeq(th_inserted, 1, Len(th_evicted))
    /\ Keys(th_cache) = SubSeq(th_inserted, Len(th_evicted) + 1, Len(th_inserted))
    /\ Len(th_inserted) = CacheLimit + 1
         => /\ Len(th_cache) = CacheLimit
            /\ th_evicted = <<ThemeCacheKey(FreshPractice(1))>>

\* the 1001st finding was analysed: the first key is gone, 1000 remain
C15_Witness ==
    /\ Len(th_inserted) = CacheLimit + 1
    /\ Len(th_cache) = CacheLimit
    /\ th_evicted = <<ThemeCacheKey(FreshPractice(1))>>
    /\ th_result.kind = "practice"

\* the entry of the text of the last call of generate_embedding
LastEntry == DictGet(vs_cache, EmbeddingCacheKey(vs_last.text))

\* the entries whose TTL has elapsed at the given time
NoneExpired(cache, now) == \A i \in 1..Len(cache) : cache[i].value.expires > now

\* C17: after every call of generate_embedding the embedding cache holds at
\* most 1000 entries; when an insertion takes it past 1000, the sweep removes
\* every expired entry first, and unexpired entries are evicted, oldest
\* first, only if more than 1000 unexpired entries remain.
C17_SweepOnOverflow ==
    /\ Len(vs_cache) <= EmbeddingCacheLimit
    /\ vs_last.swept =>
          LET live == vs_last.unexpired_before
          IN /\ Len(vs_cache) = Min(Len(live), EmbeddingCacheLimit)
             /\ Keys(vs_cache) = SubSeq(live, Len(live) - Len(vs_cache) + 1, Len(live))
    /\ (vs_last.stored /\ ~vs_last.swept) => Len(vs_cache) = vs_last.size_before

\* the 1001st insertion found expired entries: they are gone, and every
\* unexpired entry is kept
C17_Witness ==
    /\ vs_last.swept
    /\ Len(vs_last.unexpired_before) < vs_last.size_before
    /\ Len(vs_last.unexpired_before) > 1
    /\ Keys(vs_cache) = vs_last.unexpired_before

\* C18: a read of an entry whose 24-hour TTL has elapsed is a miss: the
\* cached vector is returned without calling the embedder only while
\* now < expiry; at or after the expiry the embedder is called again and a
\* fresh entry is stored.
C18_ExpiredEntryIsMiss ==
    (vs_last.called /\ vs_last.had_entry) =>
        IF vs_last.at < vs_last.prev_expires
        THEN /\ ~vs_last.embedded
             /\ vs_result = Returned("vector", <<LastEntry.embedding>>)
             /\ LastEntry.expires = vs_last.prev_expires
        ELSE /\ vs_last.embedded
             /\ ~vs_last.raised =>
                   /\ vs_last.stored
                   /\ LastEntry.expires = vs_last.at + CacheTtl
                   /\ vs_result = Returned("vector", <<LastEntry.embedding>>)

\* a text is embedded again exactly when its entry expires
C18_Witness ==
    /\ vs_last.called
    /\ vs_last.had_entry
    /\ vs_last.at = vs_last.prev_expires
    /\ vs_last.embedded
    /\ vs_last.stored
    /\ LastEntry.expires = vs_last.at + CacheTtl

\* C19 as stated: after entries were inserted and their TTL has elapsed, a
\* subsequent put shrinks the stored size by the expired entries: after that
\* put no expired entry remains.
C19_PutLeavesNoExpired ==
    (vs_last.stored /\ vs_last.at = vs_now) => NoneExpired(vs_cache, vs_now)

\* C19 amended: a put that takes the cache past 1000 entries removes every
\* expired entry: after that put no expired entry remains and the stored size
\* is the size reached by the insertion less the expired entries (less the
\* evicted oldest ones when more than 1000 are unexpired); a put that does
\* not take the cache past 1000 entries removes nothing.
C19_OverflowPutLeavesNoExpired ==
    /\ (vs_last.swept /\ vs_last.at = vs_now) =>
          /\ NoneExpired(vs_cache, vs_now)
          /\ Len(vs_cache) = Min(Len(vs_last.unexpired_before), EmbeddingCacheLimit)
    /\ (vs_last.stored /\ ~vs_last.swept) => Len(vs_cache) = vs_last.size_before

\* the cache was full of expired entries when the 1001st text was stored:
\* only the new entry remains
C19_Witness ==
    /\ vs_last.swept
    /\ vs_last.at = vs_now
    /\ vs_last.size_before = EmbeddingCacheLimit + 1
    /\ Len(vs_cache) = 1
    /\ NoneExpired(vs_cache, vs_now)

\* C21: when the answer of the extraction function has criteria_met false,
\* process_chunk returns None without raising, creates no finding and adds no
\* cache entry, whatever the practices list of the answer holds: the stored
\* findings and the cache are unchanged by the call.
C21_CriteriaNotMetChangesNothing ==
    [][(ex_calls' = ex_calls + 1 /\ ex_last'.answer.kind = "json"
           /\ ~ex_last'.answer.criteria_met)
          => /\ ex_result' = NoResult
             /\ ex_rows' = ex_rows
             /\ ex_cache' = ex_cache]_vars

\* an answer with criteria_met false and a practice was given for a chunk,
\* findings and a cache entry of another chunk being there
C21_Witness ==
    /\ ex_last.answer.kind = "json"
    /\ ~ex_last.answer.criteria_met
    /\ Len(ex_last.answer.practices) > 0
    /\ Len(ex_rows) > 0
    /\ Len(ex_cache) > 0
    /\ ex_result = NoResult

\* C22: after analyze_practice the saved finding carries at most 3 themes and
\* at most 5 keywords, whatever the model answered.
C22_AtMostThreeThemesFiveKeywords ==
    \A i \in 1..Len(th_rows) :
        /\ Len(th_rows[i].value.themes) <= MaxThemes
        /\ Len(th_rows[i].value.keywords) <= MaxKeywords

\* the vocabulary is what the model returned: known_themes is the set of the
\* themes returned, theme_frequency counts the occurrences of each of them
VocabularyIsWhatWasReturned ==
    /\ th_known = SeqToSet(th_returned)
    /\ SeqToSet(Keys(th_frequency)) = th_known
    /\ \A t \in th_known : CounterGet(th_frequency, t) = CountIn(th_returned, t)

\* no theme leaves known_themes and no count goes down
VocabularyGrows ==
    /\ th_known \subseteq th_known'
    /\ \A t \in th_known : CounterGet(th_frequency', t) >= CounterGet(th_frequency, t)

\* C23: known_themes only grows and every count of theme_frequency only goes
\* up; at every moment known_themes is the set of all theme strings the model
\* returned so far and theme_frequency[t] is the number of times the exact
\* string t was returned.
C23_VocabularyCountsReturnedThemes ==
    [][VocabularyGrows]_vars /\ []VocabularyIsWhatWasReturned

C23_Witness ==
    /\ Len(th_returned) = 5
    /\ CounterGet(th_frequency, "Transparency") = 2
    /\ CounterGet(th_frequency, "Risk") = 2
    /\ CounterGet(th_frequency, "Accountability") = 1
    /\ th_known = {"Transparency", "Risk", "Accountability"}

\* C24: the prompt of a classification names, as its hint of common themes,
\* the 5 most frequent themes of the frequency counter of the analyzer at the
\* moment of the call (all of them when fewer than 5 were seen).
C24_PromptNamesTopThemes ==
    th_last.asked => th_last.prompt.common_themes = SeqToSet(th_last.top_themes)

\* a call of analyze_practice that asks nothing and changes nothing
NoOpCall ==
    /\ ~th_last'.asked
    /\ UNCHANGED <<th_known, th_frequency, th_rows, th_cache>>

\* the cache holds the result of the finding with this id
HasResultOf(id) == \E i \in 1..Len(th_cache) : th_cache[i].value.practice_id = id

\* C25 as stated: analyze_practice on a finding already classified (same id
\* and extraction_time) asks the model nothing and leaves known_themes,
\* theme_frequency, the themes, keywords and analysis_time of the finding and
\* the cache as they were.
C25_ReanalysisIsNoOp ==
    [][(th_last' # th_last /\ DictHas(th_rows, th_last'.practice)) => NoOpCall]_vars

\* C25 amended: the same, for a finding whose result is still in the cache,
\* that is, as long as no more than 999 other findings were classified since.
C25_CachedReanalysisIsNoOp ==
    [][(th_last' # th_last /\ DictHas(th_rows, th_last'.practice)
           /\ HasResultOf(th_last'.practice)) => NoOpCall]_vars

C25_Witness ==
    /\ th_last.hit
    /\ th_last.practice = 1
    /\ DictHas(th_rows, 1)
    /\ Len(th_rows) > 1
    /\ th_result.kind = "cached"

\* the themes a call was answered with
ThemesOf(task) ==
    IF task.asked /\ task.analysis.kind = "json" /\ "themes" \in task.analysis.has
    THEN task.analysis.themes ELSE <<>>

\* the themes all the calls were answered with
RECURSIVE ThemesOfAll(_)
ThemesOfAll(tasks) ==
    IF tasks = <<>> THEN <<>> ELSE ThemesOf(Head(tasks)) \o ThemesOfAll(Tail(tasks))

AllTasksOver == \A i \in 1..Len(th_tasks) : th_tasks[i].pc \in {"done", "raised"}

DistinctFindings ==
    \A i, j \in 1..Len(th_tasks) :
        i # j => th_tasks[i].practice.id # th_tasks[j].practice.id

\* C26: concurrent calls of analyze_practice for different findings on one
\* ThemeAnalyzer lose no update of the vocabulary: in every interleaving, once
\* all calls are over, theme_frequency[t] is the number of occurrences of t in
\* the answers and known_themes holds every theme returned.
C26_NoVocabularyUpdateLost ==
    (Len(th_tasks) > 0 /\ AllTasksOver /\ DistinctFindings)
        => /\ SeqToSet(ThemesOfAll(th_tasks)) \subseteq th_known
           /\ \A t \in SeqToSet(ThemesOfAll(th_tasks)) \cup SeqToSet(Keys(th_frequency)) :
                 CounterGet(th_frequency, t) = CountIn(ThemesOfAll(th_tasks), t)

C26_Witness ==
    /\ Len(th_tasks) = 2
    /\ AllTasksOver
    /\ DistinctFindings
    /\ th_tasks[1].analysis.themes = <<"Accountability", "Transparency">>
    /\ th_tasks[2].analysis.themes = <<"Transparency">>
    /\ Keys(th_cache) = <<ThemeCacheKey(FreshPractice(2)), ThemeCacheKey(FreshPractice(1))>>
    /\ CounterGet(th_frequency, "Transparency") = 2

\* the distance of a result of the last find_similar
FoundDistance(i) == L2Distance(vs_found.results[i].embedding, vs_found.query_embedding)

\* the rows that were within the threshold of the last find_similar
RowsWithin ==
    {i \in 1..Len(vs_found.rows) :
        /\ vs_found.rows[i].has_embedding
        /\ L2Distance(vs_found.rows[i].embedding, vs_found.query_embedding) <= vs_found.threshold}

\* C27: find_similar returns its results by non-decreasing distance, none
\* beyond the threshold, at most limit of them, and they are the limit
\* nearest rows within the threshold.
C27_FindSimilarNearestWithinThreshold ==
    (vs_found.called /\ ~vs_found.raised) =>
        LET results == vs_found.results
            returned == {results[i].id : i \in 1..Len(results)}
        IN /\ \A i \in 1..(Len(results) - 1) : FoundDistance(i) <= FoundDistance(i + 1)
           /\ \A i \in 1..Len(results) :
                 /\ results[i].has_embedding
                 /\ FoundDistance(i) <= vs_found.threshold
                 /\ \E j \in RowsWithin : vs_found.rows[j] = results[i]
           /\ Len(results) = Min(vs_found.limit, Cardinality(RowsWithin))
           /\ Cardinality(returned) = Len(results)
           /\ \A j \in RowsWithin :
                 vs_found.rows[j].id \notin returned
                    => \A i \in 1..Len(results) :
                          FoundDistance(i)
                             <= L2Distance(vs_found.rows[j].embedding, vs_found.query_embedding)

C27_Witness ==
    /\ vs_found.called
    /\ ~vs_found.raised
    /\ vs_found.limit = 2
    /\ Len(vs_found.results) = 2
    /\ FoundDistance(1) < FoundDistance(2)
    /\ Cardinality(RowsWithin) = 3
    /\ vs_found.results[1].id > vs_found.results[2].id

\* the distance of a result of the last similarity_search
ServiceDistance(r) == CosineDistance(r.embedding, vd_found.query_embedding)

ServiceResultsSorted ==
    \A i \in 1..(Len(vd_found.results) - 1) :
        ServiceDistance(vd_found.results[i]) <= ServiceDistance(vd_found.results[i + 1])

\* C28: similarity_search leaves out every document whose distance exceeds
\* the threshold of the caller before it takes the top limit; its results come
\* by non-decreasing distance and are at most limit.
C28_SearchRespectsThreshold ==
    (vd_found.called /\ ~vd_found.raised) =>
        /\ \A i \in 1..Len(vd_found.results) :
              ServiceDistance(vd_found.results[i]) <= vd_found.threshold
        /\ ServiceResultsSorted
        /\ Len(vd_found.results) <= vd_found.limit

\* the documents that pass the metadata filter and the time filter of the
\* last similarity_search
PassingDocs ==
    {i \in 1..Len(vd_found.docs) :
        LET r == vd_found.docs[i] IN
        /\ \A k \in 1..Len(vd_found.metadata_filters.items) :
              LET item == vd_found.metadata_filters.items[k]
              IN DictHas(r.metadata, item.key) /\ DictGet(r.metadata, item.key) = item.value
        /\ vd_found.time_range.given
              => (vd_found.time_range.start_date <= r.created_at
                  /\ r.created_at <= vd_found.time_range.end_date)}

DocxPageOf(file, k) == 1 + Cardinality({j \in 2..k : HasPageBreak(file[j])})

\* the paragraphs of a DOCX file that belong to a page number, in their order
DocxParagraphsOf(file, n) ==
    LET on(k) == DocxPageOf(file, k) = n
        at == {k \in 1..Len(file) : on(k)}
        nth(i) == CHOOSE k \in at : Cardinality({j \in at : j < k}) = i - 1
    IN [i \in 1..Cardinality(at) |-> file[nth(i)]]

\* C30: for PDF, DOCX and ODT files the extraction returns (text, page_number)
\* pairs whose page numbers are at least 1 and strictly increasing and whose
\* texts are not empty or blank; in a DOCX file the first paragraph is on page
\* 1 and every paragraph with a page break starts the next page number.
C30_PagesNumberedAndNotBlank ==
    px_last.called =>
        LET pages == px_last.pages IN
        /\ \A i \in 1..Len(pages) : pages[i][2] >= 1 /\ NotBlank(pages[i][1])
        /\ \A i \in 1..(Len(pages) - 1) : pages[i][2] < pages[i + 1][2]
        /\ px_last.file_type = "docx" =>
              LET file == px_last.file
                  numbers == {DocxPageOf(file, k) : k \in 1..Len(file)}
                  written == {pages[i][2] : i \in 1..Len(pages)}
              IN /\ written \subseteq numbers
                 /\ \A n \in numbers :
                       IF NotBlank(JoinLines(DocxParagraphsOf(file, n)))
                       THEN \E i \in 1..Len(pages) :
                               pages[i] = <<JoinLines(DocxParagraphsOf(file, n)), n>>
                       ELSE n \notin written

C30_Witness ==
    /\ px_last.called
    /\ px_last.file_type = "docx"
    /\ px_last.file = <<<<"a">>, <<"\f">>, <<"\f", "b">>, <<"a">>>>
    /\ px_last.pages = <<<<<<"a">>, 1>>, <<<<"\f", "b", "\n", "a">>, 3>>>>

\* the cache holds an unexpired entry stored for a text that is cleaned to
\* the same text as this one
HasFreshEntryFor(text) ==
    \E i \in 1..Len(vs_cache) :
        /\ _clean_text(vs_cache[i].key.hash_of) = _clean_text(text)
        /\ IsFresh(vs_cache[i].value, vs_now)

\* C31: the embedding cache is keyed by the cleaned text: embedding a text
\* while the cache holds an unexpired entry of a text that differs from it in
\* whitespace only is a cache hit and does not call the embedder.
C31_KeyedByCleanedText ==
    [][(vs_now' = vs_now /\ vs_last'.called /\ HasFreshEntryFor(vs_last'.text))
          => ~vs_last'.embedded]_vars

\* the overlaps a chunker is constructed with
RequestedOverlaps == (0..MaxOverlap) \cup {DefaultOverlap}

\* C32: for chunk_size >= 1 the chunker works with the requested overlap
\* capped at chunk_size \div 2, and at every point of a split_text call and
\* at its end: no chunk has more than chunk_size words, every chunk that is
\* followed by another has exactly chunk_size words, every chunk after the
\* first starts exactly overlap words before the end of the chunk before it
\* and ends after it (it holds a word that no earlier chunk holds).
C32_ChunksOverlapExactly ==
    chunker.chunk_size >= 1 =>
        /\ \E overlap \in RequestedOverlaps :
              chunker.overlap = Min(overlap, chunker.chunk_size \div 2)
        /\ \A i \in 1..Len(tc_chunks) :
              /\ tc_chunks[i].size <= chunker.chunk_size
              /\ tc_chunks[i].size = tc_chunks[i].end_pos - tc_chunks[i].start_pos
              /\ tc_chunks[i].text =
                    join(SubSeq(tc_words, tc_chunks[i].start_pos + 1, tc_chunks[i].end_pos))
        /\ \A i \in 1..(Len(tc_chunks) - 1) :
              /\ tc_chunks[i].size = chunker.chunk_size
              /\ tc_chunks[i + 1].start_pos = tc_chunks[i].end_pos - chunker.overlap
              /\ tc_chunks[i + 1].end_pos > tc_chunks[i].end_pos

\* a requested overlap of two words capped at one word for chunk_size 3: the
\* second chunk starts at the last word of the first and has two words only
C32_Witness ==
    /\ tc_pc = "done"
    /\ chunker.chunk_size = 3
    /\ chunker.overlap = 1
    /\ Len(tc_chunks) = 2
    /\ tc_chunks[2].start_pos = 2
    /\ tc_chunks[2].size = 2

\* the factor, in tenths, of each adjustment of the confidence score
WordCountTenths(word_count) ==
    IF word_count < 50 THEN 8 ELSE IF word_count > 500 THEN 9 ELSE 10

EvidenceTenths(practice_data) ==
    IF practice_data.evidence.given = "str"
          /\ Len(split(practice_data.evidence.text)) > 10
    THEN 11 ELSE 10

\* the categories of the inputs that contain the name of a listed category,
\* whatever the case of their letters
CategoryTenths(practice_data) ==
    IF practice_data.category \in {"Transparent Governance",
                                   "Sound RISK MANAGEMENT & COMPLIANCE"}
    THEN 11 ELSE 10

MissingOrEmpty(practice_data, f) ==
    IF f = "evidence"
    THEN practice_data.evidence.given # "str" \/ practice_data.evidence.text = <<>>
    ELSE practice_data[f] \in {MISSING, NONE, ""}

MissingTenths(practice_data) ==
    IF \E f \in {"practice", "category", "context", "impact", "evidence"} :
          MissingOrEmpty(practice_data, f)
    THEN 7 ELSE 10

\* the product of the four factors on the base 1.0, clamped to [0, 1]
ProductOfFactors(practice_data, word_count) ==
    LET product == (ScoreOne * WordCountTenths(word_count) * EvidenceTenths(practice_data)
                        * CategoryTenths(practice_data) * MissingTenths(practice_data))
                       \div 10000
    IN IF product > ScoreOne THEN ScoreOne ELSE IF product < 0 THEN 0 ELSE product

\* C33: the confidence score of every finding process_chunk creates is the
\* product, clamped to [0, 1], of the base 1.0 and of the factors 0.8 (fewer
\* than 50 words) or 0.9 (more than 500 words), 1.1 (an evidence of more than
\* 10 words), 1.1 (a category that contains a listed category name) and 0.7,
\* once, when at least one of the five required fields is missing or empty.
C33_ScoreIsClampedProduct ==
    (~ex_last.hit /\ ex_result.kind = "list") =>
        /\ Len(ex_result.items) = Len(ex_last.answer.practices)
        /\ \A i \in 1..Len(ex_result.items) :
              ex_result.items[i].confidence_score =
                  ProductOfFactors(ex_last.answer.practices[i],
                                   Len(split(ex_last.text)))

\* a finding of a short chunk with three of the five fields missing and an
\* evidence of eleven words: 0.8 * 1.1 * 0.7, the 0.7 being applied once
C33_Witness ==
    /\ ex_result.kind = "list"
    /\ Len(split(ex_last.text)) = 49
    /\ ex_last.answer.practices[1].practice = MISSING
    /\ ex_last.answer.practices[1].context = ""
    /\ ex_last.answer.practices[1].impact = MISSING
    /\ ex_last.answer.practices[1].category = "Governance"
    /\ Len(ex_result.items[1].keywords) = 11
    /\ ex_result.items[1].confidence_score = 6160

\* the paragraphs of the file are entirely empty or hold text
NoBlankParagraph(file) == \A k \in 1..Len(file) : file[k] = <<>> \/ NotBlank(file[k])

\* the paragraphs that follow the start of the file or an empty paragraph
OdtFirstParagraphs(file) ==
    {k \in 1..Len(file) : file[k] # <<>> /\ (k = 1 \/ file[k - 1] = <<>>)}

\* the page that starts at paragraph k when every empty paragraph is a
\* delimiter: the paragraphs up to the next empty one, numbered by the empty
\* paragraphs before them
OdtDelimitedPage(file, k) ==
    LET last == CHOOSE m \in k..Len(file) :
                    /\ \A j \in k..m : file[j] # <<>>
                    /\ m = Len(file) \/ file[m + 1] = <<>>
    IN <<JoinLines(SubSeq(file, k, last)),
         1 + Cardinality({j \in 1..(k - 1) : file[j] = <<>>})>>

\* C34: in an ODT file every entirely empty paragraph is a page delimiter and
\* never content: the pages returned are the runs of non-empty paragraphs
\* between empty ones, each numbered 1 + the number of empty paragraphs before
\* its first paragraph, also with leading and consecutive empty paragraphs.
C34_OdtEmptyParagraphsDelimit ==
    (px_last.called /\ px_last.file_type = "odt" /\ NoBlankParagraph(px_last.file)) =>
        LET file == px_last.file
            pages == px_last.pages
        IN /\ Len(pages) = Cardinality(OdtFirstParagraphs(file))
           /\ {pages[i] : i \in 1..Len(pages)} =
                  {OdtDelimitedPage(file, k) : k \in OdtFirstParagraphs(file)}

\* another call for the finding of call i is suspended at its save, its answer
\* being counted in theme_frequency already
SameFindingBeingSaved(i) ==
    \E j \in 1..Len(th_tasks) :
        /\ j # i
        /\ th_tasks[j].practice.id = th_tasks[i].practice.id
        /\ th_tasks[j].pc = "saving"

\* C35: in every interleaving of analyze_practice calls on one ThemeAnalyzer
\* at most one classification call is made for a finding and its themes are
\* counted in theme_frequency at most once: a call that begins while another
\* call for the same finding is suspended at the await of its save does not
\* ask the model again, which is the only way its themes are counted again.
C35_OneClassificationPerFinding ==
    [][\A i \in 1..Len(th_tasks) :
          (/\ Len(th_tasks') = Len(th_tasks)
           /\ th_tasks[i].pc = "begin"
           /\ th_tasks'[i].pc # "begin"
           /\ SameFindingBeingSaved(i))
             => ~th_tasks'[i].asked]_vars

\* the files run r has written and not yet removed hold what it wrote
HoldsOwnFiles(r) ==
    LET run == dr_runs[r]
    IN /\ run.pc \in {"extract", "save_page", "parse", "unlink_page", "finally"} =>
             /\ FileExists(dr_files, run.downloaded_file)
             /\ FileContent(dr_files, run.downloaded_file) = r
       /\ run.pc \in {"parse", "unlink_page"} =>
             /\ FileExists(dr_files, TempPath(run.page_num))
             /\ FileContent(dr_files, TempPath(run.page_num)) = r

\* C36: when two documents are processed at the same time, no run reads,
\* overwrites or deletes a file of the other, and the downloaded file and the
\* temporary page file of a run hold what that run wrote until it removes
\* them.
C36_RunsKeepTheirFiles ==
    \A r \in 1..Len(dr_runs) :
        /\ dr_runs[r].foreign = {}
        /\ HoldsOwnFiles(r)

\* C37: every finding process_chunk returns for a chunk belongs to the
\* document of that chunk and carries its page number, whatever the cache
\* holds: also when the same text was processed before on another page or for
\* another document by the same extractor.
C37_FindingsOfTheChunk ==
    ex_result.kind \in {"list", "finding"} =>
        \A i \in 1..Len(ex_result.items) :
            /\ ex_result.items[i].document = ex_last.document
            /\ ex_result.items[i].page_number = ex_last.page_number

\* C38: process_document selects the page extractor by the MIME type declared
\* at ingestion (the file_type of the request, stored in mime_type): the
\* stored mime_type is not changed by the processing, the pages of a document
\* are extracted only when the declared type is a supported one, and the
\* failure for an unsupported format happens only when it is not, whatever the
\* file name.
C38_ExtractorByDeclaredType ==
    document # NoDocument =>
        /\ document.mime_type = request.file_type
        /\ pc \in {"page_batches", "extract", "analyze"}
              => request.file_type \in SupportedMimeTypes
        /\ response.message = "Unsupported file type"
              => request.file_type \notin SupportedMimeTypes

\* the unexpired entries the last sweep found and the cache holds no longer
EvictedUnexpired ==
    {i \in 1..Len(vs_last.unexpired_before) :
        ~DictHas(vs_cache, vs_last.unexpired_before[i])}

\* C39: whenever the embedding cache evicts an unexpired entry, that entry is
\* the one stored least recently, the one of the earliest expiry: no entry
\* that is kept expires before an evicted one, also after an expired entry was
\* regenerated and stored again under its key.
C39_EvictsLeastRecentlyStored ==
    (vs_last.swept /\ vs_last.at = vs_now) =>
        LET evicted == EvictedUnexpired
            kept == (1..Len(vs_last.unexpired_before)) \ evicted
        IN \A i \in evicted : \A j \in kept :
              vs_last.expiries_before[i] <= vs_last.expiries_before[j]

====
